---- MODULE Spec2Model ----
(***************************************************************************)
(* Model of the MEA analysis pipeline (vbueno-neuro/mea-analyzer):         *)
(*   - src/analysis/normalization.py  baseline_normalize                   *)
(*   - src/data_organizer.py          DataOrganizer                        *)
(*   - src/utilities/create_experiment_config.py  the configuration wizard *)
(*   - src/qc/outliers.py             flag_outliers, apply_outlier_filter  *)
(*   - src/mea_statistics/timepoint_tests.py  p_adjust,                    *)
(*                                    compare_conditions_at_timepoint      *)
(* Tables (pandas DataFrames) are records [columns, rows]: a set of column *)
(* names and a sequence of rows, each row a function from the column set.  *)
(* Floats are exact rationals <<n, d>> in lowest terms with d >= 0; d = 0  *)
(* holds the IEEE specials: <<0,0>> is NaN (an absent value), <<1,0>> is   *)
(* +inf and <<-1,0>> is -inf.  Rounding is modelled where p_adjust        *)
(* multiplies and divides (RoundFloat, MantissaBits significand bits) and  *)
(* nowhere else.                                                           *)
(***************************************************************************)
EXTENDS Integers, Sequences, FiniteSets, TLC

VARIABLES
    \* ---- baseline_normalize: one call ----
    df,                     \* the input table
    method,                 \* "ratio" | "percent" | "delta" ("" before the call)
    exclude_zero_baseline,  \* flag argument
    keep_excluded_rows,     \* flag argument
    merged,                 \* local `out` at normalization.py:127 (joined, reasons, normalized)
    out,                    \* returned table
    baseline_qc,            \* returned QC table
    norm_pc,                \* "idle" | "input" | "returned" | "ValueError: ..."
    \* ---- DataOrganizer ----
    data_dir,               \* names of the files in self.data_dir
    loader,                 \* what data_loader_func does on each discovered file
    config_handler,         \* TRUE iff self.config_handler is not None
    drop_ignored_wells,     \* self.drop_ignored_wells
    ignore_wells,           \* self.ignore_wells (canonicalized in __init__)
    master_df,              \* self.master_df
    csv_files,              \* what discover_csv_files returned in the last call
    org_result,             \* outcome of the last create_master_dataframe call
    \* ---- apply_metric_missing_value_rules: one call ----
    fill_in,                \* the table passed
    fill_out,               \* the table returned
    fill_pc,                \* "input" | "returned"
    \* ---- experiment configuration: creation and DataOrganizer.__init__ ----
    experiment_config,      \* the YAML content and who wrote it, or NoConfig
    cfg_well_to_condition,  \* self.well_to_condition
    cfg_ignore_wells,       \* self.ignore_wells
    cfg_pc,                 \* "idle" | "start" | "written" | "creator_error" |
                            \* "constructed" | "rejected" (ValueError in __init__)
    \* ---- flag_outliers: a call, then a call on its own output ----
    outl_df,                \* the input table
    outl_spec,              \* the OutlierSpec
    flagged,                \* flag_outliers(outl_df, outl_spec)
    reflagged,              \* flag_outliers(flagged, outl_spec)
    outl_pc,                \* "idle" | "input" | "flagged" | "reflagged"
    \* ---- apply_outlier_filter: one call ----
    flt_df,                 \* the input table
    flt_mode,               \* mode argument ("" before the call)
    flt_out,                \* the table returned
    flt_pc,                 \* "idle" | "input" | "returned" | "ValueError..."
    \* ---- p_adjust: one call ----
    padj_pvals,             \* the raw p-values
    padj_method,            \* method argument ("" before the call)
    padj_out,               \* the array returned
    padj_pc,                \* "idle" | "input" | "returned" | "ValueError"
    \* ---- compare_conditions_at_timepoint: one call ----
    cmp_df,                 \* the long table passed
    cmp_args,               \* metric, time_point, plate_id, min_n_per_group and the spec
    cmp_pvalues,            \* the p-values the scipy tests return, per test
    cmp_desc,               \* returned descriptives table
    cmp_omnibus,            \* returned omnibus table
    cmp_pairwise,           \* returned pairwise table
    cmp_pc,                 \* "idle" | "input" | "returned" | "ValueError: ..."
    \* ---- DataOrganizer: a sequence of create / get / save calls ----
    life_calls,             \* number of calls made so far
    life_op,                \* the last call: "none" | "create" | "get" | "save"
    life_ret,               \* what the last call returned, or the error it raised
    life_built,             \* the table built by the last create call that succeeded
    life_file               \* the CSV written by save_master_dataframe, or None

norm_vars == <<df, method, exclude_zero_baseline, keep_excluded_rows, merged, out,
               baseline_qc, norm_pc>>

org_vars == <<data_dir, loader, config_handler, drop_ignored_wells, ignore_wells,
              master_df, csv_files, org_result>>

fill_vars == <<fill_in, fill_out, fill_pc>>

cfg_vars == <<experiment_config, cfg_well_to_condition, cfg_ignore_wells, cfg_pc>>

outl_vars == <<outl_df, outl_spec, flagged, reflagged, outl_pc>>

flt_vars == <<flt_df, flt_mode, flt_out, flt_pc>>

padj_vars == <<padj_pvals, padj_method, padj_out, padj_pc>>

cmp_vars == <<cmp_df, cmp_args, cmp_pvalues, cmp_desc, cmp_omnibus, cmp_pairwise, cmp_pc>>

life_vars == <<life_calls, life_op, life_ret, life_built, life_file>>

vars == <<norm_vars, org_vars, fill_vars, cfg_vars, outl_vars, flt_vars,
          padj_vars, cmp_vars, life_vars>>

-----------------------------------------------------------------------------
(* Bounds of the model                                                     *)

\* most rows of a table handed to baseline_normalize or to the fill step
MaxRows == 2

\* most wells a condition, or the ignore list, of a configuration names
MaxWells == 2

\* most rows of a table handed to flag_outliers or to apply_outlier_filter
MaxOutlierRows == 3

\* most rows data_loader_func returns over all the files of the directory
MaxLongRows == 2

-----------------------------------------------------------------------------
(* Numbers                                                                 *)

NaN == <<0, 0>>

Abs(x) == IF x < 0 THEN -x ELSE x

Sign(x) == IF x < 0 THEN -1 ELSE IF x > 0 THEN 1 ELSE 0

RECURSIVE Gcd(_, _)
Gcd(a, b) == IF b = 0 THEN a ELSE Gcd(b, a % b)

\* the float n/d, in lowest terms
Rat(n, d) ==
    IF d = 0 THEN <<Sign(n), 0>>
    ELSE LET g == Gcd(Abs(n), Abs(d))
             s == Sign(d)
         IN  <<(s * n) \div g, (s * d) \div g>>

Int2Rat(i) == <<i, 1>>

isna(x) == x = NaN

RatAdd(a, b) == Rat(a[1] * b[2] + b[1] * a[2], a[2] * b[2])

RatSub(a, b) == Rat(a[1] * b[2] - b[1] * a[2], a[2] * b[2])

RatMul(a, b) == Rat(a[1] * b[1], a[2] * b[2])

\* float division: x/0 is +-inf, 0/0 and NaN/x are NaN, never an exception
RatDiv(a, b) == Rat(a[1] * b[2], a[2] * b[1])

RECURSIVE RatSum(_)
RatSum(s) == IF s = <<>> THEN Int2Rat(0) ELSE RatAdd(Head(s), RatSum(Tail(s)))

\* Series.mean(): NaN is skipped; the mean of nothing is NaN
SeriesMean(s) ==
    LET valid == SelectSeq(s, LAMBDA x : ~isna(x))
    IN  RatDiv(RatSum(valid), Int2Rat(Len(valid)))

-----------------------------------------------------------------------------
(* Strings                                                                 *)

\* str.strip().str.upper() on the well identifiers the model feeds
StripUpper(w) ==
    CASE w = "a1"  -> "A1"
      [] w = " b1" -> "B1"
      [] w = "b1"  -> "B1"
      [] OTHER     -> w

\* Python's str ordering on the key strings the model feeds
StrRank(s) ==
    CASE s = "A1" -> 1
      [] s = "B1" -> 2
      [] s = "Control" -> 3
      [] s = "DrugA" -> 4
      [] s = "DrugB" -> 5
      [] s = "Number of Bursts" -> 6
      [] s = "P1" -> 7
      [] s = "P2" -> 8
      [] s = "Synchrony Index" -> 9
      [] OTHER -> 0

-----------------------------------------------------------------------------
(* Tables                                                                  *)

Table(columns, rows) == [columns |-> columns, rows |-> rows]

None == [columns |-> {}, rows |-> <<>>, none |-> TRUE]

\* row r with column c set to v (added when new)
WithCol(r, c, v) == [k \in DOMAIN r \cup {c} |-> IF k = c THEN v ELSE r[k]]

\* row r without the columns in cs (DataFrame.drop(columns=cs, errors="ignore"))
DropCols(r, cs) == [k \in DOMAIN r \ cs |-> r[k]]

\* row r restricted to the columns cs (df[cs])
Project(r, cs) == [k \in cs |-> r[k]]

MapRows(rows, F(_)) == [i \in 1..Len(rows) |-> F(rows[i])]

\* DataFrame.drop_duplicates(): the first of equal rows is kept
RECURSIVE DropDuplicates(_)
DropDuplicates(rows) ==
    IF rows = <<>> THEN <<>>
    ELSE LET init == DropDuplicates(SubSeq(rows, 1, Len(rows) - 1))
             last == rows[Len(rows)]
         IN  IF \E i \in DOMAIN init : init[i] = last THEN init ELSE Append(init, last)

\* lexicographic order of two rows on the columns `by`
RECURSIVE RowLess(_, _, _)
RowLess(a, b, by) ==
    IF by = <<>> THEN FALSE
    ELSE LET c == Head(by)
         IN  \/ StrRank(a[c]) < StrRank(b[c])
             \/ a[c] = b[c] /\ RowLess(a, b, Tail(by))

RECURSIVE InsertSorted(_, _, _)
InsertSorted(r, rows, by) ==
    IF rows = <<>> THEN <<r>>
    ELSE IF RowLess(r, Head(rows), by) THEN <<r>> \o rows
    ELSE <<Head(rows)>> \o InsertSorted(r, Tail(rows), by)

\* DataFrame.sort_values(by)
RECURSIVE SortValues(_, _)
SortValues(rows, by) ==
    IF rows = <<>> THEN <<>>
    ELSE InsertSorted(rows[Len(rows)], SortValues(SubSeq(rows, 1, Len(rows) - 1), by), by)

SeqRange(s) == {s[i] : i \in DOMAIN s}

Null == "<NA>"

-----------------------------------------------------------------------------
(* baseline_normalize (src/analysis/normalization.py)                      *)

baseline_time_point == 0

value_col == "value"

normalized_col == "value_norm"

Methods == {"ratio", "percent", "delta"}

\* lines 82-85: canonical well; time_point and value are already numeric
Standardize(d) ==
    Table(d.columns, MapRows(d.rows, LAMBDA r : WithCol(r, "well", StripUpper(r.well))))

\* mutant: the plate is left out of the grouping key
key_cols_NoPlate(d) == <<"well", "metric">>

\* lines 88-90
key_cols(d) ==
    IF "plate_id" \in d.columns THEN <<"plate_id", "well", "metric">>
    ELSE <<"well", "metric">>

KeyOf(r, on) == Project(r, SeqRange(on))

\* lines 93-94: the baseline rows, as key columns + _baseline_value
ExtractBaseline(d, on) ==
    MapRows(SelectSeq(d.rows, LAMBDA r : r.time_point = baseline_time_point),
            LAMBDA r : WithCol(KeyOf(r, on), "_baseline_value", r[value_col]))

\* mutant: duplicate baseline rows are not aggregated before the join
GroupByMean_NoAggregate(base, on) == base

\* line 97: groupby(key_cols, as_index=False)["_baseline_value"].mean()
GroupByMean(base, on) ==
    LET keys == SortValues(DropDuplicates(MapRows(base, LAMBDA r : KeyOf(r, on))), on)
        vals(k) == MapRows(SelectSeq(base, LAMBDA r : KeyOf(r, on) = k),
                           LAMBDA r : r["_baseline_value"])
    IN  MapRows(keys, LAMBDA k : WithCol(k, "_baseline_value", SeriesMean(vals(k))))

\* line 100: d.merge(base, on=key_cols, how="left")
RECURSIVE MergeLeft(_, _, _)
MergeLeft(left, right, on) ==
    IF left = <<>> THEN <<>>
    ELSE LET l == Head(left)
             matches == SelectSeq(right, LAMBDA r : KeyOf(r, on) = KeyOf(l, on))
             joined == IF matches = <<>>
                       THEN <<WithCol(l, "_baseline_value", NaN)>>
                       ELSE MapRows(matches,
                                LAMBDA r : WithCol(l, "_baseline_value", r["_baseline_value"]))
         IN  joined \o MergeLeft(Tail(left), right, on)

\* mutant: a zero baseline is excluded under every method, delta included
ExclusionReason_AnyMethod(baseline, m, exclude_zero) ==
    IF isna(baseline) THEN "baseline_missing"
    ELSE IF exclude_zero /\ baseline = Int2Rat(0) THEN "baseline_zero"
    ELSE Null

\* lines 105-114: the exclusion reason of a row with this baseline
ExclusionReason(baseline, m, exclude_zero) ==
    LET mask_nan == isna(baseline)
        r1 == IF mask_nan THEN "baseline_missing" ELSE Null
    IN  IF m \in {"ratio", "percent"} /\ exclude_zero
        THEN IF ~mask_nan /\ baseline = Int2Rat(0) THEN "baseline_zero" ELSE r1
        ELSE r1

\* mutant: ratio divides the baseline by the value
NormalizedValue_Inverted(r, m) ==
    IF r["_baseline_exclusion_reason"] # Null THEN NaN
    ELSE CASE m = "ratio"   -> RatDiv(r["_baseline_value"], r[value_col])
           [] m = "percent" -> RatDiv(RatMul(Int2Rat(100), r[value_col]), r["_baseline_value"])
           [] m = "delta"   -> RatSub(r[value_col], r["_baseline_value"])

\* mutant: percent forgets the factor 100
NormalizedValue_NoFactor(r, m) ==
    IF r["_baseline_exclusion_reason"] # Null THEN NaN
    ELSE CASE m = "ratio"   -> RatDiv(r[value_col], r["_baseline_value"])
           [] m = "percent" -> RatDiv(r[value_col], r["_baseline_value"])
           [] m = "delta"   -> RatSub(r[value_col], r["_baseline_value"])

\* lines 121-127: the normalized value of one row
NormalizedValue(r, m) ==
    LET ok == r["_baseline_exclusion_reason"] = Null
    IN  IF ~ok THEN NaN
        ELSE CASE m = "ratio"   -> RatDiv(r[value_col], r["_baseline_value"])
               [] m = "percent" -> RatDiv(RatMul(Int2Rat(100), r[value_col]), r["_baseline_value"])
               [] m = "delta"   -> RatSub(r[value_col], r["_baseline_value"])

\* lines 80-127: the frame `out` with the helper and normalized columns
NormalizeFrame(d0, m, exclude_zero) ==
    LET d  == Standardize(d0)
        on == key_cols(d)
        base == GroupByMean(ExtractBaseline(d, on), on)
        j  == MergeLeft(d.rows, base, on)
        jr == MapRows(j, LAMBDA r : WithCol(r, "_baseline_exclusion_reason",
                          ExclusionReason(r["_baseline_value"], m, exclude_zero)))
        jn == MapRows(jr, LAMBDA r : WithCol(r, normalized_col, NormalizedValue(r, m)))
    IN  Table(d.columns \cup {"_baseline_value", "_baseline_exclusion_reason", normalized_col},
              jn)

\* DataFrame.rename(columns={old: new}) on one row
Rename(r, old, new) == [k \in (DOMAIN r \ {old}) \cup {new} |-> IF k = new THEN r[old] ELSE r[k]]

\* mutant: the QC table keeps one row per excluded row (no drop_duplicates)
BuildQC_NoDedup(frame, on) ==
    LET excluded == SelectSeq(frame.rows, LAMBDA r : r["_baseline_exclusion_reason"] # Null)
        qc_cols  == SeqRange(on) \cup {"_baseline_value", "_baseline_exclusion_reason"}
    IN  Table(SeqRange(on) \cup {"baseline_value", "exclusion_reason"},
              SortValues(MapRows(MapRows(excluded, LAMBDA r : Project(r, qc_cols)),
                  LAMBDA r : Rename(Rename(r, "_baseline_value", "baseline_value"),
                                    "_baseline_exclusion_reason", "exclusion_reason")), on))

\* lines 130-141: the QC table of the excluded keys
BuildQC(frame, on) ==
    LET excluded == SelectSeq(frame.rows, LAMBDA r : r["_baseline_exclusion_reason"] # Null)
        qc_cols  == SeqRange(on) \cup {"_baseline_value", "_baseline_exclusion_reason"}
        renamed(r) == Rename(Rename(r, "_baseline_value", "baseline_value"),
                             "_baseline_exclusion_reason", "exclusion_reason")
    IN  Table(SeqRange(on) \cup {"baseline_value", "exclusion_reason"},
              SortValues(MapRows(DropDuplicates(MapRows(excluded,
                             LAMBDA r : Project(r, qc_cols))), renamed), on))

\* line 148: the helper columns the code removes from the result
CleanedColumns == {"_baseline_value"}

\* lines 143-148: keep or drop the excluded rows, clean helper columns
FinalFrame(frame, keep) ==
    LET kept == IF ~keep
                THEN SelectSeq(frame.rows, LAMBDA r : r["_baseline_exclusion_reason"] = Null)
                ELSE frame.rows
    IN  Table(frame.columns \ CleanedColumns,
              MapRows(kept, LAMBDA r : DropCols(r, CleanedColumns)))

-----------------------------------------------------------------------------
(* DataOrganizer (src/data_organizer.py)                                   *)

\* ---- file names: sequences of characters ----
Digits == {"0", "1", "2", "3", "4", "5", "6", "7", "8", "9"}

DigitValue(c) ==
    CASE c = "0" -> 0 [] c = "1" -> 1 [] c = "2" -> 2 [] c = "3" -> 3 [] c = "4" -> 4
      [] c = "5" -> 5 [] c = "6" -> 6 [] c = "7" -> 7 [] c = "8" -> 8 [] c = "9" -> 9

\* glob("*.csv")
EndsWithCsv(name) ==
    Len(name) >= 4 /\ SubSeq(name, Len(name) - 3, Len(name)) = <<".", "c", "s", "v">>

\* the longest prefix of digits: what (\d+) takes
RECURSIVE LeadingDigits(_)
LeadingDigits(name) ==
    IF name # <<>> /\ Head(name) \in Digits
    THEN <<Head(name)>> \o LeadingDigits(Tail(name))
    ELSE <<>>

\* re.match(r"^(\d+)_", name) succeeds
MatchesPrefix(name) ==
    LET ds == LeadingDigits(name)
    IN  Len(ds) >= 1 /\ Len(name) > Len(ds) /\ name[Len(ds) + 1] = "_"

\* int(match.group(1))
RECURSIVE ParseInt(_)
ParseInt(ds) ==
    IF ds = <<>> THEN 0
    ELSE 10 * ParseInt(SubSeq(ds, 1, Len(ds) - 1)) + DigitValue(ds[Len(ds)])

\* list.sort(key=lambda x: x[0]): stable
RECURSIVE InsertByTp(_, _)
InsertByTp(x, sorted) ==
    IF sorted = <<>> THEN <<x>>
    ELSE IF x[1] < sorted[Len(sorted)][1]
         THEN Append(InsertByTp(x, SubSeq(sorted, 1, Len(sorted) - 1)), sorted[Len(sorted)])
         ELSE Append(sorted, x)

\* mutant: the files are left in glob order
SortByTp_GlobOrder(s) == s

RECURSIVE SortByTp(_)
SortByTp(s) ==
    IF s = <<>> THEN <<>>
    ELSE InsertByTp(s[Len(s)], SortByTp(SubSeq(s, 1, Len(s) - 1)))

\* lines 135-142 of discover_csv_files, glob having yielded the names in `globbed`
DiscoverCsvFiles(globbed) ==
    LET matched == SelectSeq(globbed, MatchesPrefix)
    IN  SortByTp([i \in 1..Len(matched) |->
                    <<ParseInt(LeadingDigits(matched[i])), matched[i]>>])

Orderings(S) ==
    { s \in [1..Cardinality(S) -> S] : \A i, j \in 1..Cardinality(S) : s[i] = s[j] => i = j }

\* the orders in which glob may yield the .csv files of a directory
Globs(dir) == Orderings({f \in dir : EndsWithCsv(f)})

\* ---- experiment configuration ----
plate_id == "P1"

\* self.conditions, in the order of the YAML mapping
conditions ==
    << [name |-> "Control", wells |-> <<"a1">>, color |-> "#1f77b4"],
       [name |-> "Drug",    wells |-> <<"C1">>, color |-> "#d62728"] >>

\* mutant: the ignore list is taken as written
CanonIgnoreWells_Raw(raw) == raw

\* lines 68-71
CanonIgnoreWells(raw) == [i \in 1..Len(raw) |-> StripUpper(raw[i])]

\* lines 103-107: the wells of one condition are entered into the mapping
RECURSIVE AssignWells(_, _, _)
AssignWells(acc, name, wells) ==
    IF wells = <<>> \/ acc.error THEN acc
    ELSE LET well_id == StripUpper(Head(wells))
         IN  IF well_id \in DOMAIN acc.mapping
             THEN [error |-> TRUE, mapping |-> acc.mapping]
             ELSE AssignWells(
                    [error |-> FALSE,
                     mapping |-> [w \in DOMAIN acc.mapping \cup {well_id} |->
                                    IF w = well_id THEN name ELSE acc.mapping[w]]],
                    name, Tail(wells))

\* lines 94-110: _create_well_mapping; error = ValueError raised
RECURSIVE CreateWellMapping(_)
CreateWellMapping(conds) ==
    IF conds = <<>> THEN [error |-> FALSE, mapping |-> [w \in {} |-> ""]]
    ELSE LET last == conds[Len(conds)]
         IN  AssignWells(CreateWellMapping(SubSeq(conds, 1, Len(conds) - 1)),
                         last.name, last.wells)

well_to_condition == CreateWellMapping(conditions).mapping

\* lines 112-119
condition_to_color ==
    [c \in {conditions[i].name : i \in DOMAIN conditions} |->
        conditions[CHOOSE i \in DOMAIN conditions : conditions[i].name = c].color]

\* mutant: wells missing from the dict get a sentinel string
MapDict_Sentinel(dict, k) == IF k \in DOMAIN dict THEN dict[k] ELSE "Unused"

\* Series.map(dict): keys missing from the dict give a missing cell
MapDict(dict, k) == IF k \in DOMAIN dict THEN dict[k] ELSE Null

\* ---- metric classification (config_handler.py) ----
count_metrics == {"Number of Bursts"}
rate_metrics == {"Weighted Mean Firing Rate (Hz)"}
interval_duration_metrics == {"Burst Duration - Avg (sec)"}
derived_metrics == {"Synchrony Index"}

get_metric_type(metric_name) ==
    IF metric_name \in count_metrics THEN "count"
    ELSE IF metric_name \in rate_metrics THEN "rate"
    ELSE IF metric_name \in interval_duration_metrics THEN "interval_duration"
    ELSE IF metric_name \in derived_metrics THEN "derived"
    ELSE "unknown"

\* mutant: only count metrics are filled (rate is forgotten)
ApplyMetricMissingValueRules_CountOnly(t) ==
    IF ~config_handler THEN t
    ELSE LET typed(r) == IF "metric_type" \in t.columns THEN r
                         ELSE WithCol(r, "metric_type", get_metric_type(r.metric))
             filled(r) == IF isna(r.value) /\ r.metric_type = "count"
                          THEN WithCol(r, "value", Int2Rat(0))
                          ELSE r
         IN  Table(t.columns \cup {"metric_type"},
                   [i \in 1..Len(t.rows) |-> filled(typed(t.rows[i]))])

\* ---- apply_metric_missing_value_rules (lines 159-209) ----
ApplyMetricMissingValueRules(t) ==
    IF ~config_handler THEN t
    ELSE LET typed(r) == IF "metric_type" \in t.columns THEN r
                         ELSE WithCol(r, "metric_type", get_metric_type(r.metric))
             filled(r) == IF isna(r.value) /\ r.metric_type \in {"count", "rate"}
                          THEN WithCol(r, "value", Int2Rat(0))
                          ELSE r
         IN  Table(t.columns \cup {"metric_type"},
                   [i \in 1..Len(t.rows) |-> filled(typed(t.rows[i]))])

\* ---- create_master_dataframe (lines 214-314) ----
\* what data_loader_func(path) does: raise, or return a long table
Raises == [raised |-> TRUE, columns |-> {}, rows |-> <<>>]

Returns(columns, rows) == [raised |-> FALSE, columns |-> columns, rows |-> rows]

Failed == [failed |-> TRUE, columns |-> {}, rows |-> <<>>]

Organized(columns, rows) == [failed |-> FALSE, columns |-> columns, rows |-> rows]

\* lines 244-246: rename(columns={"Metric": "metric", "Well": "well", "Value": "value"})
NewName(c) ==
    CASE c = "Metric" -> "metric" [] c = "Well" -> "well" [] c = "Value" -> "value"
      [] OTHER -> c

RenameLong(r) ==
    [k \in {NewName(c) : c \in DOMAIN r} |-> r[CHOOSE c \in DOMAIN r : NewName(c) = k]]

\* lines 241-271: the body of the try block for one file; Failed = an exception
\* was raised (and is caught at line 276)
OrganizeFile(long, time_point) ==
    IF long.raised THEN Failed
    ELSE LET cols == {NewName(c) : c \in long.columns}
         IN  IF "well" \notin cols THEN Failed                        \* KeyError, line 249
             ELSE IF config_handler /\ "metric" \notin cols THEN Failed   \* KeyError, line 267
             ELSE
             LET r1 == [i \in 1..Len(long.rows) |-> RenameLong(long.rows[i])]
                 r2 == MapRows(r1, LAMBDA r : WithCol(r, "well", StripUpper(r.well)))
                 r3 == MapRows(r2, LAMBDA r :
                          WithCol(WithCol(r, "plate_id", plate_id), "time_point", time_point))
                 r4 == MapRows(r3, LAMBDA r :
                          WithCol(r, "condition", MapDict(well_to_condition, r.well)))
                 r5 == IF drop_ignored_wells /\ ignore_wells # <<>>
                       THEN SelectSeq(r4, LAMBDA r : r.well \notin SeqRange(ignore_wells))
                       ELSE r4
                 r6 == MapRows(r5, LAMBDA r :
                          WithCol(r, "condition_color", MapDict(condition_to_color, r.condition)))
                 r7 == MapRows(r6, LAMBDA r :
                          WithCol(r, "metric_type",
                              IF config_handler THEN get_metric_type(r.metric) ELSE "unknown"))
             IN  Organized(cols \cup {"plate_id", "time_point", "condition",
                                      "condition_color", "metric_type"}, r7)

\* mutant: the first failing file ends the loop (no per-file try/except)
RECURSIVE LoadAll_StopAtFailure(_, _)
LoadAll_StopAtFailure(files, load) ==
    IF files = <<>> THEN <<>>
    ELSE LET res == OrganizeFile(load[Head(files)[2]], Head(files)[1])
         IN  IF res.failed THEN <<>>
             ELSE <<Table(res.columns, res.rows)>> \o LoadAll_StopAtFailure(Tail(files), load)

\* lines 236-277: the loop over the discovered files; all_data is returned
RECURSIVE LoadAll(_, _)
LoadAll(files, load) ==
    IF files = <<>> THEN <<>>
    ELSE LET all_data == LoadAll(SubSeq(files, 1, Len(files) - 1), load)
             last == files[Len(files)]
             res  == OrganizeFile(load[last[2]], last[1])
         IN  IF res.failed THEN all_data ELSE Append(all_data, Table(res.columns, res.rows))

\* line 282: pd.concat(all_data, ignore_index=True); a cell of a column a
\* frame lacks is missing
RECURSIVE Concat(_)
Concat(all_data) ==
    IF all_data = <<>> THEN Table({}, <<>>)
    ELSE LET rest == Concat(Tail(all_data))
             h == Head(all_data)
             cols == h.columns \cup rest.columns
             widen(r) == [c \in cols |-> IF c \in DOMAIN r THEN r[c] ELSE Null]
         IN  Table(cols, MapRows(h.rows, widen) \o MapRows(rest.rows, widen))

\* lines 288-299: the canonical schema
SchemaColumns ==
    {"plate_id", "time_point", "well", "condition", "condition_color", "metric", "value",
     "metric_type"}

\* lines 279-300: the table stored in self.master_df, all_data being non-empty
BuildMaster(all_data) ==
    LET m == ApplyMetricMissingValueRules(Concat(all_data))
        cols == m.columns \cap SchemaColumns
    IN  Table(cols, MapRows(m.rows, LAMBDA r : Project(r, cols)))

\* ---- inputs of the normalizer ----
\* group keys (plate_id, raw well, metric) of tables with a plate_id column: a
\* base key, the same well in lower case, another plate, another metric
NormKeysPlate ==
    { <<"P1", "A1", "Number of Bursts">>, <<"P1", "a1", "Number of Bursts">>,
      <<"P2", "A1", "Number of Bursts">>, <<"P1", "A1", "Synchrony Index">> }

\* group keys (raw well, metric) of tables without a plate_id column: a base
\* key, the same well in lower case, another well
NormKeysNoPlate ==
    { <<"A1", "Number of Bursts">>, <<"a1", "Number of Bursts">>,
      <<" b1", "Number of Bursts">> }

NormTimePoints == {0, 1}

NormValues == {NaN, Int2Rat(0), Int2Rat(2)}

NormRowsPlate ==
    { [plate_id |-> k[1], well |-> k[2], metric |-> k[3], time_point |-> t, value |-> v] :
        k \in NormKeysPlate, t \in NormTimePoints, v \in NormValues }

NormRowsNoPlate ==
    { [well |-> k[1], metric |-> k[2], time_point |-> t, value |-> v] :
        k \in NormKeysNoPlate, t \in NormTimePoints, v \in NormValues }

SeqsUpTo(S, n) == UNION {[1..k -> S] : k \in 0..n}

NormInputs ==
    { Table({"plate_id", "well", "metric", "time_point", "value"}, rs) :
        rs \in SeqsUpTo(NormRowsPlate, MaxRows) }
    \cup
    { Table({"well", "metric", "time_point", "value"}, rs) :
        rs \in SeqsUpTo(NormRowsNoPlate, MaxRows) }

IdleNorm ==
    /\ df = None
    /\ method = ""
    /\ exclude_zero_baseline = FALSE
    /\ keep_excluded_rows = FALSE
    /\ merged = None
    /\ out = None
    /\ baseline_qc = None
    /\ norm_pc = "idle"

IdleOrg ==
    /\ data_dir = {}
    /\ loader = <<>>
    /\ drop_ignored_wells = FALSE
    /\ ignore_wells = <<>>
    /\ master_df = None
    /\ csv_files = <<>>
    /\ org_result = "none"

IdleFill ==
    /\ fill_in = None
    /\ fill_out = None
    /\ fill_pc = "idle"

NoConfig == [conditions |-> <<>>, ignore_wells |-> <<>>, by |-> "nobody"]

IdleCfg ==
    /\ experiment_config = NoConfig
    /\ cfg_well_to_condition = <<>>
    /\ cfg_ignore_wells = <<>>
    /\ cfg_pc = "idle"

IdleOutl ==
    /\ outl_df = None
    /\ outl_spec = <<>>
    /\ flagged = None
    /\ reflagged = None
    /\ outl_pc = "idle"

IdleFlt ==
    /\ flt_df = None
    /\ flt_mode = ""
    /\ flt_out = None
    /\ flt_pc = "idle"

IdlePadj ==
    /\ padj_pvals = <<>>
    /\ padj_method = ""
    /\ padj_out = <<>>
    /\ padj_pc = "idle"

IdleCmp ==
    /\ cmp_df = None
    /\ cmp_args = <<>>
    /\ cmp_pvalues = <<>>
    /\ cmp_desc = None
    /\ cmp_omnibus = None
    /\ cmp_pairwise = None
    /\ cmp_pc = "idle"

\* what a call gives back: the error it raised ("" for none) and its value
NoCall == [raised |-> "", value |-> None]

IdleLife ==
    /\ life_calls = 0
    /\ life_op = "none"
    /\ life_ret = NoCall
    /\ life_built = None
    /\ life_file = None

\* ---- inputs of the DataOrganizer ----
Name_0_a_csv  == <<"0", "_", "a", ".", "c", "s", "v">>
Name_00_b_csv == <<"0", "0", "_", "b", ".", "c", "s", "v">>
Name_1_a_csv  == <<"1", "_", "a", ".", "c", "s", "v">>
Name_n_csv    == <<"n", ".", "c", "s", "v">>
Name_2_a_txt  == <<"2", "_", "a", ".", "t", "x", "t">>

NumberedFiles == {Name_0_a_csv, Name_00_b_csv, Name_1_a_csv}

OtherFiles == {Name_n_csv, Name_2_a_txt}

\* the directories: any of the numbered files, beside the other files
DataDirs == {S \cup OtherFiles : S \in SUBSET NumberedFiles}

LongColumns == {"Metric", "Well", "Value"}

\* rows of well A1 (assigned to Control) for a count and a derived metric,
\* present or absent value, a row of well b1 (ignored) and a row of well D1
\* (neither assigned nor ignored)
LongRows ==
    { [Metric |-> m, Well |-> "A1", Value |-> v] :
        m \in {"Number of Bursts", "Synchrony Index"}, v \in {NaN, Int2Rat(10)} }
    \cup { [Metric |-> "Number of Bursts", Well |-> w, Value |-> Int2Rat(10)] :
              w \in {" b1", "D1"} }

\* per file: the loader raises, returns an (empty) table without the Well
\* column, or returns a full long table
FileKinds == {"raise", "no_well", "table"}

\* the rows tagged f, in order
RowsOf(tagged, f) ==
    LET mine == SelectSeq(tagged, LAMBDA x : x[1] = f)
    IN  [i \in 1..Len(mine) |-> mine[i][2]]

LoaderOf(files, kind, tagged) ==
    [f \in files |->
        CASE kind[f] = "raise"   -> Raises
          [] kind[f] = "no_well" -> Returns(LongColumns \ {"Well"}, <<>>)
          [] kind[f] = "table"   -> Returns(LongColumns, RowsOf(tagged, f))]

\* the behaviours of data_loader_func on the files: at most MaxLongRows rows in all
Loaders(files) ==
    UNION { { LoaderOf(files, kind, tagged) :
                tagged \in SeqsUpTo({f \in files : kind[f] = "table"} \X LongRows,
                                    MaxLongRows) } :
            kind \in [files -> FileKinds] }

\* the files discover_csv_files can return
Discoverable(dir) == {f \in dir : EndsWithCsv(f) /\ MatchesPrefix(f)}

\* the ignore_wells entry of the YAML file
ignore_wells_config == <<"b1">>

InitOrg ==
    /\ data_dir \in DataDirs
    /\ loader \in Loaders(Discoverable(data_dir))
    /\ config_handler \in BOOLEAN
    /\ drop_ignored_wells \in BOOLEAN
    /\ ignore_wells = CanonIgnoreWells(ignore_wells_config)
    /\ master_df = None
    /\ csv_files = <<>>
    /\ org_result = "none"
    /\ IdleNorm
    /\ IdleFill
    /\ IdleCfg
    /\ IdleOutl
    /\ IdleFlt
    /\ IdlePadj /\ IdleCmp /\ IdleLife

\* create_master_dataframe(data_loader_func)
CreateMasterDataframe ==
    /\ org_result = "none"
    /\ \E found \in {DiscoverCsvFiles(g) : g \in Globs(data_dir)} :
          /\ csv_files' = found
          /\ IF found = <<>>
             THEN /\ org_result' = "ValueError"          \* line 145
                  /\ UNCHANGED master_df
             ELSE LET all_data == LoadAll(found, loader)
                  IN  IF all_data = <<>>
                      THEN /\ org_result' = "ValueError"  \* line 280
                           /\ UNCHANGED master_df
                      ELSE /\ org_result' = "ok"
                           /\ master_df' = BuildMaster(all_data)
    /\ UNCHANGED <<data_dir, loader, config_handler, drop_ignored_wells, ignore_wells,
                   norm_vars, fill_vars, cfg_vars, outl_vars, flt_vars,
                   padj_vars, cmp_vars, life_vars>>

NextOrg == CreateMasterDataframe

SpecOrg == InitOrg /\ [][NextOrg]_vars

\* ---- master tables handed to the normalizer ----
\* the loader on a directory holding 0_a.csv and 1_a.csv, each with one row
\* (Number of Bursts, A1): value v0 in the first file, v1 in the second
EndToEndLoader(v0, v1) ==
    [f \in {Name_0_a_csv, Name_1_a_csv} |->
        Returns(LongColumns,
                <<[Metric |-> "Number of Bursts", Well |-> "A1",
                   Value |-> IF f = Name_0_a_csv THEN v0 ELSE v1]>>)]

EndToEndValues == {NaN, Int2Rat(10), Int2Rat(20)}

\* the master tables create_master_dataframe builds from them
EndToEndTables ==
    { BuildMaster(LoadAll(DiscoverCsvFiles(<<Name_1_a_csv, Name_n_csv, Name_0_a_csv>>),
                          EndToEndLoader(v0, v1))) :
        v0 \in EndToEndValues, v1 \in EndToEndValues }

\* the organizer is configured (its fields are read when the master tables
\* are built) and has not run; the normalizer is about to be called
InitNorm ==
    /\ config_handler = TRUE
    /\ IdleOrg
    /\ IdleFill
    /\ IdleCfg
    /\ IdleOutl
    /\ IdleFlt
    /\ df \in NormInputs \cup EndToEndTables
    /\ method = ""
    /\ exclude_zero_baseline = FALSE
    /\ keep_excluded_rows = FALSE
    /\ merged = None
    /\ out = None
    /\ baseline_qc = None
    /\ norm_pc = "input"
    /\ IdlePadj /\ IdleCmp /\ IdleLife

\* a column check that lets a table without rows through
MissingColumns_RowsOnly(required, t) == IF t.rows = <<>> THEN {} ELSE required \ t.columns

\* required - set(df.columns): the required columns the table lacks
MissingColumns(required, t) == required \ t.columns

\* line 75: the columns the table must have
NormRequired == {"time_point", "well", "metric", value_col}

\* baseline_normalize(df, method=m, exclude_zero_baseline=ez, keep_excluded_rows=keep,
\*                    return_qc_table=True)
BaselineNormalize(m, ez, keep) ==
    /\ norm_pc = "input"
    /\ method' = m
    /\ exclude_zero_baseline' = ez
    /\ keep_excluded_rows' = keep
    /\ IF m \notin Methods                                            \* lines 72-73
       THEN /\ norm_pc' = "ValueError: method"
            /\ UNCHANGED <<merged, out, baseline_qc>>
       ELSE IF MissingColumns(NormRequired, df) # {}                   \* lines 75-78
       THEN /\ norm_pc' = "ValueError: missing columns"
            /\ UNCHANGED <<merged, out, baseline_qc>>
       ELSE LET frame == NormalizeFrame(df, m, ez)
            IN  /\ merged' = frame
                /\ out' = FinalFrame(frame, keep)
                /\ baseline_qc' = BuildQC(frame, key_cols(df))
                /\ norm_pc' = "returned"
    /\ UNCHANGED <<df, org_vars, fill_vars, cfg_vars, outl_vars, flt_vars,
                   padj_vars, cmp_vars, life_vars>>

NextNorm ==
    \E m \in Methods, ez \in BOOLEAN, keep \in BOOLEAN : BaselineNormalize(m, ez, keep)

SpecNorm == InitNorm /\ [][NextNorm]_vars

\* ---- inputs of the fill step ----
MetricTypes == {"count", "rate", "interval_duration", "derived", "unknown"}

FillMetrics ==
    {"Number of Bursts", "Weighted Mean Firing Rate (Hz)", "Burst Duration - Avg (sec)",
     "Synchrony Index", "Foo"}

FillValues == {NaN, Int2Rat(0), Int2Rat(3)}

\* tables without a metric_type column (any metric), and with one (which
\* is free to disagree with the metric's classification)
FillInputs ==
    { Table({"metric", "value"}, rs) :
        rs \in SeqsUpTo({ [metric |-> m, value |-> v] : m \in FillMetrics, v \in FillValues },
                        MaxRows) }
    \cup
    { Table({"metric", "value", "metric_type"}, rs) :
        rs \in SeqsUpTo({ [metric |-> "Number of Bursts", value |-> v, metric_type |-> t] :
                            t \in MetricTypes, v \in FillValues }, MaxRows) }

InitFill ==
    /\ fill_in \in FillInputs
    /\ config_handler \in BOOLEAN
    /\ fill_out = None
    /\ fill_pc = "input"
    /\ IdleNorm
    /\ IdleOrg
    /\ IdleCfg
    /\ IdleOutl
    /\ IdleFlt
    /\ IdlePadj /\ IdleCmp /\ IdleLife

\* organizer.apply_metric_missing_value_rules(fill_in)
ApplyRules ==
    /\ fill_pc = "input"
    /\ config_handler => ("metric" \in fill_in.columns /\ "value" \in fill_in.columns)
    /\ fill_out' = ApplyMetricMissingValueRules(fill_in)
    /\ fill_pc' = "returned"
    /\ UNCHANGED <<fill_in, norm_vars, org_vars, cfg_vars, outl_vars, flt_vars,
                   padj_vars, cmp_vars, life_vars>>

NextFill == ApplyRules

SpecFill == InitFill /\ [][NextFill]_vars

\* ---- experiment configuration (create_experiment_config.py, DataOrganizer.__init__) ----
\* create_experiment_config.py lines 19-21
VALID_WELLS ==
    {"A1", "A2", "A3", "A4", "A5", "A6", "B1", "B2", "B3", "B4", "B5", "B6",
     "C1", "C2", "C3", "C4", "C5", "C6", "D1", "D2", "D3", "D4", "D5", "D6"}

\* lines 99-108
default_colors ==
    <<"#1f77b4", "#ff7f0e", "#2ca02c", "#d62728", "#9467bd", "#8c564b", "#e377c2", "#7f7f7f">>

\* lines 46-52: duplicates removed, order kept
RECURSIVE Dedup(_)
Dedup(ws) ==
    IF ws = <<>> THEN <<>>
    ELSE LET init == Dedup(SubSeq(ws, 1, Len(ws) - 1))
             w == ws[Len(ws)]
         IN  IF w \in SeqRange(init) THEN init ELSE Append(init, w)

\* _parse_wells on the comma-separated tokens of an answer; error = ValueError
ParseWells(tokens) ==
    LET wells == [i \in 1..Len(tokens) |-> StripUpper(tokens[i])]
    IN  IF wells = <<>> THEN [error |-> TRUE, wells |-> <<>>]
        ELSE IF SeqRange(wells) \ VALID_WELLS # {} THEN [error |-> TRUE, wells |-> <<>>]
        ELSE [error |-> FALSE, wells |-> Dedup(wells)]

\* the condition names typed at the prompt of line 115
ConditionNames == <<"Control", "Drug">>

\* well tokens of a hand-written configuration or of an answer to the creator
RawWells == {"A1", "a1", "C1"}

RawIgnoreWells == {"b1", "a1"}

WellLists == SeqsUpTo(RawWells, MaxWells)

\* hand-written YAML files: two conditions and an optional ignore list
HandConfigs ==
    { [conditions |-> << [name |-> ConditionNames[1], wells |-> w1, color |-> default_colors[1]],
                          [name |-> ConditionNames[2], wells |-> w2, color |-> default_colors[2]] >>,
       ignore_wells |-> ign, by |-> "hand"] :
        w1 \in WellLists, w2 \in WellLists, ign \in SeqsUpTo(RawIgnoreWells, MaxWells) }

\* answers to the ignore prompt of the creator: nothing, or a list of tokens
IgnoreAnswers == SeqsUpTo(RawIgnoreWells \cup {"Z9"}, MaxWells)

InitCfg ==
    /\ \/ experiment_config = NoConfig /\ cfg_pc = "start"
       \/ experiment_config \in HandConfigs /\ cfg_pc = "written"
    /\ cfg_well_to_condition = <<>>
    /\ cfg_ignore_wells = <<>>
    /\ IdleNorm
    /\ IdleOrg /\ config_handler = FALSE
    /\ IdleFill
    /\ IdleOutl
    /\ IdleFlt
    /\ IdlePadj /\ IdleCmp /\ IdleLife

\* create_experiment_config(): answers[i] is the wells answer accepted for
\* condition i (lines 117-134 ask again until the answer parses and does not
\* overlap the wells used so far); ign is the answer to the ignore prompt
CreateExperimentConfig ==
    /\ cfg_pc = "start"
    /\ \E n \in 1..Len(ConditionNames) :
       \E answers \in [1..n -> WellLists], ign \in IgnoreAnswers :
          /\ \A i \in 1..n : ~ParseWells(answers[i]).error
          /\ \A i, j \in 1..n :
                j < i => SeqRange(ParseWells(answers[j]).wells)
                           \cap SeqRange(ParseWells(answers[i]).wells) = {}
          /\ LET conds == [i \in 1..n |->
                             [name |-> ConditionNames[i],
                              wells |-> ParseWells(answers[i]).wells,
                              color |-> default_colors[((i - 1) % Len(default_colors)) + 1]]]
                 used_wells == UNION {SeqRange(conds[i].wells) : i \in 1..n}
                 parsed == ParseWells(ign)
             IN  IF ign = <<>>                                        \* line 161
                 THEN /\ experiment_config' =
                            [conditions |-> conds, ignore_wells |-> <<>>, by |-> "creator"]
                      /\ cfg_pc' = "written"
                 ELSE IF parsed.error \/ used_wells \cap SeqRange(parsed.wells) # {}
                 THEN /\ cfg_pc' = "creator_error"                    \* lines 162, 167
                      /\ UNCHANGED experiment_config
                 ELSE /\ experiment_config' =
                            [conditions |-> conds, ignore_wells |-> parsed.wells,
                             by |-> "creator"]
                      /\ cfg_pc' = "written"
    /\ UNCHANGED <<cfg_well_to_condition, cfg_ignore_wells, norm_vars, org_vars, fill_vars,
                   outl_vars, flt_vars,
                   padj_vars, cmp_vars, life_vars>>

\* DataOrganizer(experiment_config_path), data_organizer.py lines 64-78
Construct ==
    /\ cfg_pc = "written"
    /\ LET built == CreateWellMapping(experiment_config.conditions)
       IN  IF built.error
           THEN /\ cfg_pc' = "rejected"                               \* line 106
                /\ UNCHANGED <<cfg_well_to_condition, cfg_ignore_wells>>
           ELSE /\ cfg_pc' = "constructed"
                /\ cfg_ignore_wells' = CanonIgnoreWells(experiment_config.ignore_wells)
                /\ cfg_well_to_condition' = built.mapping
    /\ UNCHANGED <<experiment_config, norm_vars, org_vars, fill_vars, outl_vars, flt_vars,
                   padj_vars, cmp_vars, life_vars>>

NextCfg == CreateExperimentConfig \/ Construct

SpecCfg == InitCfg /\ [][NextCfg]_vars

\* ---- flag_outliers (src/qc/outliers.py) ----
\* OutlierSpec defaults, lines 27-28
group_cols == <<"plate_id", "metric", "condition", "time_point">>

AnnotationColumns ==
    {"is_outlier", "outlier_score", "outlier_method", "outlier_threshold", "outlier_group_n"}

\* a < b on finite floats
RatLess(a, b) == a[1] * b[2] < b[1] * a[2]

RatAbs(a) == <<Abs(a[1]), a[2]>>

RECURSIVE InsertRat(_, _)
InsertRat(x, sorted) ==
    IF sorted = <<>> THEN <<x>>
    ELSE IF RatLess(x, Head(sorted)) THEN <<x>> \o sorted
    ELSE <<Head(sorted)>> \o InsertRat(x, Tail(sorted))

RECURSIVE SortRat(_)
SortRat(s) == IF s = <<>> THEN <<>> ELSE InsertRat(Head(s), SortRat(Tail(s)))

\* Series.median() of a series without NaN; NaN when empty
Median(valid) ==
    LET sorted == SortRat(valid)
        n == Len(valid)
    IN  IF n = 0 THEN NaN
        ELSE IF n % 2 = 1 THEN sorted[(n + 1) \div 2]
        ELSE RatDiv(RatAdd(sorted[n \div 2], sorted[(n \div 2) + 1]), Int2Rat(2))

\* the population variance (ddof = 0)
Variance_Population(valid) ==
    LET mean == SeriesMean(valid)
        sq == [i \in 1..Len(valid) |-> RatMul(RatSub(valid[i], mean), RatSub(valid[i], mean))]
    IN  RatDiv(RatSum(sq), Int2Rat(Len(valid)))

\* Series.std(ddof=1) squared: the sample variance; NaN with fewer than two values
Variance(valid) ==
    LET mean == SeriesMean(valid)
        sq == [i \in 1..Len(valid) |-> RatMul(RatSub(valid[i], mean), RatSub(valid[i], mean))]
    IN  RatDiv(RatSum(sq), Int2Rat(Len(valid) - 1))

\* the constant of line 90
RobustFactor == Rat(6745, 10000)

\* a score is the float num / sqrt(var), kept as the pair <<num, var>>
ScoreNaN == <<NaN, NaN>>

Score(num, var) == IF isna(num) \/ isna(var) THEN ScoreNaN ELSE <<num, var>>

\* mutant: the comparison of line 96 is strict
AbsGeq_Strict(score, threshold) ==
    /\ score # ScoreNaN
    /\ RatLess(RatMul(RatMul(threshold, threshold), score[2]),
               RatMul(score[1], score[1]))

\* line 96: z.abs() >= spec.threshold (False for NaN); threshold >= 0
AbsGeq(score, threshold) ==
    /\ score # ScoreNaN
    /\ ~RatLess(RatMul(score[1], score[1]),
                RatMul(RatMul(threshold, threshold), score[2]))

\* lines 61-66: the copy with the annotation columns (re)set
Annotated(r, spec) ==
    [k \in DOMAIN r \cup AnnotationColumns |->
        CASE k = "outlier_method"    -> spec.method
          [] k = "outlier_threshold" -> spec.threshold
          [] k = "outlier_score"     -> ScoreNaN
          [] k = "is_outlier"        -> FALSE
          [] k = "outlier_group_n"   -> 0
          [] OTHER                   -> r[k]]

\* rows of group g with the count written (line 73) and nothing else
Unscored(g, n) == MapRows(g, LAMBDA r : WithCol(r, "outlier_group_n", n))

\* rows of group g with count, score and flag written (lines 73, 95-96)
Scored(g, n, spec, z(_)) ==
    MapRows(g, LAMBDA r :
        [k \in DOMAIN r |->
            CASE k = "outlier_group_n" -> n
              [] k = "outlier_score"   -> z(r.value)
              [] k = "is_outlier"      -> AbsGeq(z(r.value), spec.threshold)
              [] OTHER                 -> r[k]])

\* mutant: groups smaller than min_group_n are scored too
ProcessGroup_NoMinN(g, spec) ==
    LET vals == [i \in 1..Len(g) |-> g[i].value]
        valid == SelectSeq(vals, LAMBDA x : ~isna(x))
        n == Len(valid)
    IN  IF spec.method = "zscore"
        THEN LET mean == SeriesMean(valid)
                 var == Variance(valid)
             IN  IF var = Int2Rat(0) \/ isna(var) THEN Unscored(g, n)
                 ELSE Scored(g, n, spec, LAMBDA x : Score(RatSub(x, mean), var))
        ELSE LET median == Median(valid)
                 mad == Median([i \in 1..n |-> RatAbs(RatSub(valid[i], median))])
             IN  IF mad = Int2Rat(0) \/ isna(mad) THEN Unscored(g, n)
                 ELSE Scored(g, n, spec, LAMBDA x :
                        Score(RatDiv(RatMul(RobustFactor, RatSub(x, median)), mad), Int2Rat(1)))

\* mutant: flagged points lose their value
ProcessGroup_DropsValue(g, spec) ==
    LET vals == [i \in 1..Len(g) |-> g[i].value]
        valid == SelectSeq(vals, LAMBDA x : ~isna(x))
        n == Len(valid)
        drop(rows) == MapRows(rows, LAMBDA r : IF r.is_outlier THEN WithCol(r, "value", NaN) ELSE r)
    IN  IF n < spec.min_group_n THEN Unscored(g, n)
        ELSE IF spec.method = "zscore"
        THEN LET mean == SeriesMean(valid)
                 var == Variance(valid)
             IN  IF var = Int2Rat(0) \/ isna(var) THEN Unscored(g, n)
                 ELSE drop(Scored(g, n, spec, LAMBDA x : Score(RatSub(x, mean), var)))
        ELSE LET median == Median(valid)
                 mad == Median([i \in 1..n |-> RatAbs(RatSub(valid[i], median))])
             IN  IF mad = Int2Rat(0) \/ isna(mad) THEN Unscored(g, n)
                 ELSE drop(Scored(g, n, spec, LAMBDA x :
                        Score(RatDiv(RatMul(RobustFactor, RatSub(x, median)), mad), Int2Rat(1))))

\* lines 68-97: _process_group on the rows g of one group
ProcessGroup(g, spec) ==
    LET vals == [i \in 1..Len(g) |-> g[i].value]
        valid == SelectSeq(vals, LAMBDA x : ~isna(x))
        n == Len(valid)
    IN  IF n < spec.min_group_n THEN Unscored(g, n)
        ELSE IF spec.method = "zscore"
        THEN LET mean == SeriesMean(valid)
                 var == Variance(valid)
             IN  IF var = Int2Rat(0) \/ isna(var) THEN Unscored(g, n)
                 ELSE Scored(g, n, spec, LAMBDA x : Score(RatSub(x, mean), var))
        ELSE LET median == Median(valid)
                 mad == Median([i \in 1..n |-> RatAbs(RatSub(valid[i], median))])
             IN  IF mad = Int2Rat(0) \/ isna(mad) THEN Unscored(g, n)
                 ELSE Scored(g, n, spec, LAMBDA x :
                        Score(RatDiv(RatMul(RobustFactor, RatSub(x, median)), mad), Int2Rat(1)))

\* a row groupby leaves out: a null in one of the group columns (dropna=True)
\* (time_point is an integer column, which holds no null)
HasNullKey(r, cols) == \E i \in DOMAIN cols : cols[i] # "time_point" /\ r[cols[i]] = Null

\* lines 59-100: flag_outliers(t, spec). groupby(...).apply returns the rows of
\* the groups in their original order; rows with a null group key are in no group
FlagOutliers(t, spec) ==
    LET annotated == MapRows(t.rows, LAMBDA r : Annotated(r, spec))
        grouped == SelectSeq(annotated, LAMBDA r : ~HasNullKey(r, group_cols))
        same(a, b) == \A i \in DOMAIN group_cols : a[group_cols[i]] = b[group_cols[i]]
        result(i) ==
            LET g == SelectSeq(grouped, LAMBDA r : same(r, grouped[i]))
                pos == Cardinality({j \in 1..i : same(grouped[j], grouped[i])})
            IN  ProcessGroup(g, spec)[pos]
    IN  Table(t.columns \cup AnnotationColumns, [i \in 1..Len(grouped) |-> result(i)])

\* ---- inputs of flag_outliers ----
OutlierMethods == {"zscore", "robust_zscore"}

OutlierThresholds == {Rat(1, 2), Int2Rat(1)}

OutlierMinGroupN == {1, 3}

OutlierSpecs ==
    [method : OutlierMethods, threshold : OutlierThresholds, min_group_n : OutlierMinGroupN]

\* rows of one plate, metric and time point: wells of Control (absent value,
\* 0, 1, 2), wells of Drug (0, 2) and an unassigned well (null condition)
OutlierRows ==
    { [plate_id |-> "P1", metric |-> "Number of Bursts", condition |-> c[1],
       time_point |-> 0, value |-> c[2]] :
        c \in ({"Control"} \X {NaN, Int2Rat(0), Int2Rat(1), Int2Rat(2)})
              \cup ({"Drug"} \X {Int2Rat(0), Int2Rat(2)})
              \cup ({Null} \X {Int2Rat(1)}) }

OutlierInputs ==
    { Table({"plate_id", "metric", "condition", "time_point", "value"}, rs) :
        rs \in SeqsUpTo(OutlierRows, MaxOutlierRows) }

InitOutl ==
    /\ outl_df \in OutlierInputs
    /\ outl_spec \in OutlierSpecs
    /\ flagged = None
    /\ reflagged = None
    /\ outl_pc = "input"
    /\ IdleNorm
    /\ IdleOrg /\ config_handler = FALSE
    /\ IdleFill
    /\ IdleCfg
    /\ IdleFlt
    /\ IdlePadj /\ IdleCmp /\ IdleLife

\* lines 92-93: _process_group raises on the rows g of a group when it comes
\* to pick the method and knows neither name
ProcessGroupRaises(g, spec) ==
    /\ Len(SelectSeq(g, LAMBDA r : ~isna(r.value))) >= spec.min_group_n
    /\ spec.method \notin OutlierMethods

\* groupby(...).apply(_process_group) raises: some group makes it raise
FlagOutliersRaises(t, spec) ==
    LET grouped == SelectSeq(t.rows, LAMBDA r : ~HasNullKey(r, group_cols))
        same(a, b) == \A i \in DOMAIN group_cols : a[group_cols[i]] = b[group_cols[i]]
    IN  \E i \in DOMAIN grouped :
            ProcessGroupRaises(SelectSeq(grouped, LAMBDA r : same(r, grouped[i])), spec)

\* flagged = flag_outliers(outl_df, outl_spec)
Flag ==
    /\ outl_pc = "input"
    /\ IF MissingColumns(SeqRange(group_cols) \cup {"value"}, outl_df) # {}  \* line 59
       THEN /\ outl_pc' = "ValueError: missing columns"
            /\ UNCHANGED flagged
       ELSE IF FlagOutliersRaises(outl_df, outl_spec)                    \* lines 92-93
       THEN /\ outl_pc' = "ValueError: method"
            /\ UNCHANGED flagged
       ELSE /\ flagged' = FlagOutliers(outl_df, outl_spec)
            /\ outl_pc' = "flagged"
    /\ UNCHANGED <<outl_df, outl_spec, reflagged, norm_vars, org_vars, fill_vars, cfg_vars,
                   flt_vars,
                   padj_vars, cmp_vars, life_vars>>

\* reflagged = flag_outliers(flagged, outl_spec)
FlagAgain ==
    /\ outl_pc = "flagged"
    /\ reflagged' = FlagOutliers(flagged, outl_spec)
    /\ outl_pc' = "reflagged"
    /\ UNCHANGED <<outl_df, outl_spec, flagged, norm_vars, org_vars, fill_vars, cfg_vars,
                   flt_vars,
                   padj_vars, cmp_vars, life_vars>>

NextOutl == Flag \/ FlagAgain

SpecOutl == InitOutl /\ [][NextOutl]_vars

\* ---- apply_outlier_filter (src/qc/outliers.py lines 143-189) ----
FilterModes == {"point_to_nan", "drop_rows", "drop_well_metric"}

\* line 169
FilterKey == <<"plate_id", "well", "metric">>

\* lines 171-176: the distinct keys of the flagged rows, keys with a null left out
BadKeys(rows) ==
    LET flagged_rows == SelectSeq(rows, LAMBDA r : r.is_outlier)
        complete == SelectSeq(flagged_rows, LAMBDA r : ~HasNullKey(r, FilterKey))
    IN  DropDuplicates(MapRows(complete, LAMBDA r : Project(r, SeqRange(FilterKey))))

\* mutant: drop_well_metric drops the flagged rows only
ApplyOutlierFilter_FlaggedOnly(t, mode) ==
    CASE mode = "point_to_nan" ->
            Table(t.columns,
                  MapRows(t.rows, LAMBDA r : IF r.is_outlier THEN WithCol(r, "value", NaN) ELSE r))
      [] mode = "drop_rows" ->
            Table(t.columns, SelectSeq(t.rows, LAMBDA r : ~r.is_outlier))
      [] mode = "drop_well_metric" ->
            Table(t.columns,
                  SelectSeq(t.rows, LAMBDA r : ~(r.is_outlier /\ ~HasNullKey(r, FilterKey))))

\* apply_outlier_filter whose point_to_nan mode removes flagged rows the way
\* drop_rows does
ApplyOutlierFilter_PointDrops(t, mode) ==
    CASE mode = "point_to_nan" ->
            Table(t.columns, SelectSeq(t.rows, LAMBDA r : ~r.is_outlier))
      [] mode = "drop_rows" ->
            Table(t.columns, SelectSeq(t.rows, LAMBDA r : ~r.is_outlier))
      [] mode = "drop_well_metric" ->
            LET bad == BadKeys(t.rows)
                dropped(r) == \E i \in DOMAIN bad : bad[i] = Project(r, SeqRange(FilterKey))
            IN  IF bad = <<>> THEN t
                ELSE Table(t.columns, SelectSeq(t.rows, LAMBDA r : ~dropped(r)))

\* the table apply_outlier_filter(t, mode) returns, mode being one of FilterModes
ApplyOutlierFilter(t, mode) ==
    CASE mode = "point_to_nan" ->                                     \* lines 161-163
            Table(t.columns,
                  MapRows(t.rows, LAMBDA r : IF r.is_outlier THEN WithCol(r, "value", NaN) ELSE r))
      [] mode = "drop_rows" ->                                        \* lines 165-166
            Table(t.columns, SelectSeq(t.rows, LAMBDA r : ~r.is_outlier))
      [] mode = "drop_well_metric" ->                                 \* lines 168-187
            LET bad == BadKeys(t.rows)
                dropped(r) == \E i \in DOMAIN bad : bad[i] = Project(r, SeqRange(FilterKey))
            IN  IF bad = <<>> THEN t
                ELSE Table(t.columns, SelectSeq(t.rows, LAMBDA r : ~dropped(r)))

\* ---- inputs of apply_outlier_filter ----
\* rows of wells A1 and B1 of plate P1 at time points 0 and 1, flagged or not,
\* and rows of well A1 whose plate_id is null
FilterRows ==
    { [plate_id |-> "P1", well |-> w, metric |-> "Number of Bursts", time_point |-> t,
       value |-> Int2Rat(1), is_outlier |-> f] :
        w \in {"A1", "B1"}, t \in {0, 1}, f \in BOOLEAN }
    \cup
    { [plate_id |-> Null, well |-> "A1", metric |-> "Number of Bursts", time_point |-> 0,
       value |-> Int2Rat(1), is_outlier |-> f] : f \in BOOLEAN }

FilterInputs ==
    { Table({"plate_id", "well", "metric", "time_point", "value", "is_outlier"}, rs) :
        rs \in SeqsUpTo(FilterRows, MaxOutlierRows) }

InitFlt ==
    /\ flt_df \in FilterInputs
    /\ flt_mode = ""
    /\ flt_out = None
    /\ flt_pc = "input"
    /\ IdleNorm
    /\ IdleOrg /\ config_handler = FALSE
    /\ IdleFill
    /\ IdleCfg
    /\ IdleOutl
    /\ IdlePadj /\ IdleCmp /\ IdleLife

\* flt_out = apply_outlier_filter(flt_df, mode)
ApplyFilter(mode) ==
    /\ flt_pc = "input"
    /\ flt_mode' = mode
    /\ IF "is_outlier" \notin flt_df.columns                           \* lines 156-157
       THEN /\ flt_pc' = "ValueError: not flagged"
            /\ UNCHANGED flt_out
       ELSE IF mode \notin FilterModes                                 \* line 189
       THEN /\ flt_pc' = "ValueError"
            /\ UNCHANGED flt_out
       ELSE IF mode = "drop_well_metric"
               /\ MissingColumns(SeqRange(FilterKey), flt_df) # {}      \* line 169
       THEN /\ flt_pc' = "ValueError: missing columns"
            /\ UNCHANGED flt_out
       ELSE /\ flt_out' = ApplyOutlierFilter(flt_df, mode)
            /\ flt_pc' = "returned"
    /\ UNCHANGED <<flt_df, norm_vars, org_vars, fill_vars, cfg_vars, outl_vars,
                   padj_vars, cmp_vars, life_vars>>

NextFlt == \E mode \in FilterModes \cup {"drop"} : ApplyFilter(mode)

SpecFlt == InitFlt /\ [][NextFlt]_vars

-----------------------------------------------------------------------------
(* p_adjust (mea_statistics/timepoint_tests.py): multiple-testing correction *)
(* of an array of float64 p-values. Each arithmetic operation rounds its    *)
(* exact result to the nearest float, ties to even; the model keeps that    *)
(* rounding and shortens the significand from 53 bits to MantissaBits.      *)

\* bits of the significand of a float
MantissaBits == 3

\* longest array of p-values passed to p_adjust
MaxPValues == 3

RECURSIVE Pow2(_)
Pow2(k) == IF k = 0 THEN 1 ELSE 2 * Pow2(k - 1)

Pow2Rat(e) == IF e >= 0 THEN <<Pow2(e), 1>> ELSE <<1, Pow2(-e)>>

RatLeq(a, b) == a[1] * b[2] <= b[1] * a[2]

RatMin(a, b) == IF RatLess(b, a) THEN b ELSE a

RatMax(a, b) == IF RatLess(a, b) THEN b ELSE a

\* the e with 2^e <= x < 2^(e+1), for x > 0, searched from the guess e
RECURSIVE Exponent(_, _)
Exponent(x, e) ==
    IF RatLess(x, Pow2Rat(e)) THEN Exponent(x, e - 1)
    ELSE IF RatLeq(Pow2Rat(e + 1), x) THEN Exponent(x, e + 1)
    ELSE e

\* the float nearest to the real x >= 0 (round half to even)
RoundFloat(x) ==
    IF x[1] = 0 \/ x[2] = 0 THEN x
    ELSE LET ulp == Pow2Rat(Exponent(x, 0) - MantissaBits + 1)
             s   == RatDiv(x, ulp)
             q   == s[1] \div s[2]
             r2  == 2 * (s[1] % s[2])
             up  == r2 > s[2] \/ (r2 = s[2] /\ q % 2 = 1)
         IN  RatMul(Int2Rat(IF up THEN q + 1 ELSE q), ulp)

\* a * b and a / b in float arithmetic
FloatMul(a, b) == RoundFloat(RatMul(a, b))

FloatDiv(a, b) == RoundFloat(RatDiv(a, b))

AdjustMethods == {"bonferroni", "holm", "fdr_bh"}

\* np.argsort(pvals): an index order that sorts pvals ascending; the order of
\* equal p-values is left to the sort
ArgSorts(pvals) ==
    { o \in Orderings(DOMAIN pvals) :
        \A i, j \in DOMAIN pvals : i < j => RatLeq(pvals[o[i]], pvals[o[j]]) }

\* out[order] = adj
Scatter(adj, order) ==
    [i \in DOMAIN adj |-> adj[CHOOSE k \in DOMAIN order : order[k] = i]]

\* np.minimum(pvals * m, 1.0)
Bonferroni(pvals) ==
    [i \in DOMAIN pvals |->
        RatMin(FloatMul(pvals[i], Int2Rat(Len(pvals))), Int2Rat(1))]

\* adj[i] = max(adj[i], adj[i - 1]) for i = 1 .. m-1, on the first k entries
RECURSIVE CumMax(_, _)
CumMax(adj, k) ==
    IF k <= 1 THEN adj
    ELSE LET done == CumMax(adj, k - 1)
         IN  [done EXCEPT ![k] = RatMax(done[k], done[k - 1])]

\* adj[i] = min(adj[i], adj[i + 1]) for i = m-2 .. 0, on the entries from k on
RECURSIVE CumMinFromRight(_, _)
CumMinFromRight(adj, k) ==
    IF k >= Len(adj) THEN adj
    ELSE LET done == CumMinFromRight(adj, k + 1)
         IN  [done EXCEPT ![k] = RatMin(done[k], done[k + 1])]

\* holm whose result is left in sorted order, never put back
Holm_Unscattered(pvals, order) ==
    LET m      == Len(pvals)
        ranked == [i \in DOMAIN pvals |-> pvals[order[i]]]
        adj    == [i \in DOMAIN pvals |->
                     RatMin(FloatMul(Int2Rat(m - (i - 1)), ranked[i]), Int2Rat(1))]
    IN  CumMax(adj, m)

\* the holm branch, order being what argsort returned
Holm(pvals, order) ==
    LET m      == Len(pvals)
        ranked == [i \in DOMAIN pvals |-> pvals[order[i]]]
        adj    == [i \in DOMAIN pvals |->
                     RatMin(FloatMul(Int2Rat(m - (i - 1)), ranked[i]), Int2Rat(1))]
    IN  Scatter(CumMax(adj, m), order)

\* fdr_bh that divides by the rank but never multiplies by m
FdrBh_NoCount(pvals, order) ==
    LET ranked == [i \in DOMAIN pvals |-> pvals[order[i]]]
        adj    == [i \in DOMAIN pvals |-> FloatDiv(ranked[i], Int2Rat(i))]
        capped == [i \in DOMAIN pvals |->
                     RatMin(CumMinFromRight(adj, 1)[i], Int2Rat(1))]
    IN  Scatter(capped, order)

\* the fdr_bh branch, order being what argsort returned
FdrBh(pvals, order) ==
    LET m      == Len(pvals)
        ranked == [i \in DOMAIN pvals |-> pvals[order[i]]]
        adj    == [i \in DOMAIN pvals |->
                     FloatDiv(FloatMul(ranked[i], Int2Rat(m)), Int2Rat(i))]
        capped == [i \in DOMAIN pvals |->
                     RatMin(CumMinFromRight(adj, 1)[i], Int2Rat(1))]
    IN  Scatter(capped, order)

\* p_adjust(pvals, method): the array returned, or the ValueError raised
PAdjust(pvals, adjust, order) ==
    IF Len(pvals) = 0 THEN [raised |-> FALSE, out |-> pvals]          \* lines 49-50
    ELSE CASE adjust = "bonferroni" ->                                \* lines 52-53
                [raised |-> FALSE, out |-> Bonferroni(pvals)]
           [] adjust = "holm" ->                                      \* lines 55-66
                [raised |-> FALSE, out |-> Holm(pvals, order)]
           [] adjust = "fdr_bh" ->                                    \* lines 68-80
                [raised |-> FALSE, out |-> FdrBh(pvals, order)]
           [] OTHER -> [raised |-> TRUE, out |-> <<>>]                \* line 82

\* ---- inputs of p_adjust ----
\* p-values in [0, 1] that are floats at every width of the significand >= 3
PValues == {Int2Rat(0), Rat(1, 8), Rat(3, 16), Rat(1, 4), Rat(1, 2), Int2Rat(1)}

InitPadj ==
    /\ padj_pvals \in SeqsUpTo(PValues, MaxPValues)
    /\ padj_method = ""
    /\ padj_out = <<>>
    /\ padj_pc = "input"
    /\ IdleNorm
    /\ IdleOrg /\ config_handler = FALSE
    /\ IdleFill
    /\ IdleCfg
    /\ IdleOutl
    /\ IdleFlt
    /\ IdleCmp /\ IdleLife

\* padj_out = p_adjust(padj_pvals, method = adjust)
CallPAdjust(adjust) ==
    /\ padj_pc = "input"
    /\ padj_method' = adjust
    /\ \E order \in ArgSorts(padj_pvals) :
          LET res == PAdjust(padj_pvals, adjust, order)
          IN  IF res.raised
              THEN padj_pc' = "ValueError" /\ UNCHANGED padj_out
              ELSE padj_pc' = "returned" /\ padj_out' = res.out
    /\ UNCHANGED <<padj_pvals, norm_vars, org_vars, fill_vars, cfg_vars, outl_vars, flt_vars,
                   cmp_vars, life_vars>>

NextPadj == \E adjust \in AdjustMethods \cup {"sidak"} : CallPAdjust(adjust)

SpecPadj == InitPadj /\ [][NextPadj]_vars

-----------------------------------------------------------------------------
(* compare_conditions_at_timepoint (mea_statistics/timepoint_tests.py).     *)
(* The scipy tests are not computed: each returns some p-value in [0, 1],   *)
(* chosen freely. The statistic, effect, sem and std columns, which depend  *)
(* on those tests or on a square root, are left out of the tables.          *)

\* most rows of the table passed to compare_conditions_at_timepoint
MaxCmpRows == 3

TestFamilies == {"parametric", "nonparametric"}

\* lines 137-140: the columns the table must have
CmpRequired == {"metric", "time_point", "condition", "value"}

\* lines 143-144 and 150: the rows of the metric and time point asked for
\* that have a condition and, when a plate is asked for, are of that plate
CmpSelect(t, a) ==
    SelectSeq(t.rows,
              LAMBDA r : /\ r.metric = a.metric
                         /\ r.time_point = a.time_point
                         /\ r.condition # Null
                         /\ a.plate_id # Null => r.plate_id = a.plate_id)

\* the non-absent values of condition c, in row order
GroupValues(rows, c) ==
    SelectSeq(MapRows(SelectSeq(rows, LAMBDA r : r.condition = c), LAMBDA r : r.value),
              LAMBDA x : ~isna(x))

\* lines 153-164: one row per condition, conditions sorted
Describe(rows) ==
    LET keys == SortValues(DropDuplicates(MapRows(rows, LAMBDA r : [condition |-> r.condition])),
                           <<"condition">>)
    IN  MapRows(keys,
                LAMBDA k : [condition |-> k.condition,
                            n         |-> Len(GroupValues(rows, k.condition)),
                            mean      |-> SeriesMean(GroupValues(rows, k.condition)),
                            median    |-> Median(GroupValues(rows, k.condition))])

\* a selection that asks for more than min_n_per_group values
valid_conditions_Strict(desc, min_n_per_group) ==
    MapRows(SelectSeq(desc, LAMBDA r : r.n > min_n_per_group), LAMBDA r : r.condition)

\* line 167
valid_conditions(desc, min_n_per_group) ==
    MapRows(SelectSeq(desc, LAMBDA r : r.n >= min_n_per_group), LAMBDA r : r.condition)

\* a dispatch that runs the k-sample tests on two groups as well
OmnibusTest_KSample(k, test_family) ==
    IF test_family = "parametric" THEN "oneway_anova" ELSE "kruskal_wallis"

\* lines 192-217: the omnibus test run on k groups
OmnibusTest(k, test_family) ==
    IF k = 2
    THEN IF test_family = "parametric" THEN "welch_ttest" ELSE "mannwhitney_u"
    ELSE IF test_family = "parametric" THEN "oneway_anova" ELSE "kruskal_wallis"

\* lines 225-237: the test run on a pair of groups
PairwiseTest(test_family) ==
    IF test_family = "parametric" THEN "welch_ttest" ELSE "mannwhitney_u"

\* pairs of neighbouring conditions only
Combinations_Adjacent(s) ==
    [i \in 1..(IF Len(s) < 2 THEN 0 ELSE Len(s) - 1) |-> <<s[i], s[i + 1]>>]

\* line 223: itertools.combinations(s, 2)
RECURSIVE Combinations(_)
Combinations(s) ==
    IF Len(s) < 2 THEN <<>>
    ELSE [j \in 1..(Len(s) - 1) |-> <<s[1], s[j + 1]>>] \o Combinations(Tail(s))

\* lines 180-190 and 219: the single row of the omnibus table
OmnibusRow(a, k, p) ==
    [metric          |-> a.metric,
     time_point      |-> a.time_point,
     plate_id        |-> IF a.plate_id # Null THEN a.plate_id ELSE "ALL",
     test_family     |-> a.test_family,
     test            |-> OmnibusTest(k, a.test_family),
     p_value         |-> p,
     k_groups        |-> k,
     min_n_per_group |-> a.min_n_per_group]

\* lines 239-254 and 259: the pairwise rows in the order of the pairs, p being
\* the p-values of the tests and adj their adjustment
PairwiseRows(a, rows, pairs, p, adj) ==
    [i \in DOMAIN pairs |->
        [metric      |-> a.metric,
         time_point  |-> a.time_point,
         plate_id    |-> IF a.plate_id # Null THEN a.plate_id ELSE "ALL",
         test_family |-> a.test_family,
         test        |-> PairwiseTest(a.test_family),
         condition_a |-> pairs[i][1],
         condition_b |-> pairs[i][2],
         n_a         |-> Len(GroupValues(rows, pairs[i][1])),
         n_b         |-> Len(GroupValues(rows, pairs[i][2])),
         p_value     |-> p[i],
         p_adj       |-> adj[i]]]

\* line 260: sort_values("p_adj") returns the rows in some ascending order
SortedByPAdj(rows) ==
    { [i \in DOMAIN rows |-> rows[o[i]]] :
        o \in { o \in Orderings(DOMAIN rows) :
                  \A i, j \in DOMAIN rows : i < j => RatLeq(rows[o[i]].p_adj, rows[o[j]].p_adj) } }

\* ---- inputs of compare_conditions_at_timepoint ----
\* p-values a test may return: significant or not
TestPValues == {Rat(1, 32), Int2Rat(1)}

CmpRow(m, t, pl, c, v) ==
    [metric |-> m, time_point |-> t, plate_id |-> pl, condition |-> c, value |-> v]

\* rows of the metric and time point asked for (Control and DrugA on plate P1,
\* DrugB on plate P2, one absent value, one row without condition) and rows of
\* another metric and of another time point
CmpRows ==
    { CmpRow("Number of Bursts", 1, "P1", c, Int2Rat(1)) : c \in {"Control", "DrugA", Null} }
    \cup
    { CmpRow("Number of Bursts", 1, "P1", "Control", NaN),
      CmpRow("Number of Bursts", 1, "P2", "DrugB", Int2Rat(2)),
      CmpRow("Synchrony Index", 1, "P1", "Control", Int2Rat(1)),
      CmpRow("Number of Bursts", 0, "P1", "Control", Int2Rat(1)) }

CmpInputs ==
    { Table({"metric", "time_point", "plate_id", "condition", "value"}, rs) :
        rs \in SeqsUpTo(CmpRows, MaxCmpRows) }

CmpArgs ==
    [metric : {"Number of Bursts"}, time_point : {1}, plate_id : {Null, "P1"},
     min_n_per_group : {1, 2}, test_family : TestFamilies, p_adjust_method : AdjustMethods]

InitCmp ==
    /\ cmp_df \in CmpInputs
    /\ cmp_args = <<>>
    /\ cmp_pvalues = <<>>
    /\ cmp_desc = None
    /\ cmp_omnibus = None
    /\ cmp_pairwise = None
    /\ cmp_pc = "input"
    /\ IdleNorm
    /\ IdleOrg /\ config_handler = FALSE
    /\ IdleFill
    /\ IdleCfg
    /\ IdleOutl
    /\ IdleFlt
    /\ IdlePadj /\ IdleLife

\* (cmp_desc, cmp_omnibus, cmp_pairwise) =
\*     compare_conditions_at_timepoint(cmp_df, **a)
CompareConditionsAtTimepoint(a) ==
    /\ cmp_pc = "input"
    /\ cmp_args' = a
    /\ LET d     == CmpSelect(cmp_df, a)
           desc  == Describe(d)
           valid == valid_conditions(desc, a.min_n_per_group)
           k     == Len(valid)
           pairs == Combinations(valid)
       IN  IF MissingColumns(CmpRequired, cmp_df) # {}                 \* lines 137-140
           THEN /\ cmp_pc' = "ValueError: missing columns"
                /\ UNCHANGED <<cmp_pvalues, cmp_desc, cmp_omnibus, cmp_pairwise>>
           ELSE IF a.plate_id # Null /\ "plate_id" \notin cmp_df.columns  \* lines 147-149
           THEN /\ cmp_pc' = "ValueError: no plate_id column"
                /\ UNCHANGED <<cmp_pvalues, cmp_desc, cmp_omnibus, cmp_pairwise>>
           ELSE IF k < 2                                              \* lines 171-173
           THEN /\ cmp_pc' = "ValueError: not enough conditions"
                /\ UNCHANGED <<cmp_pvalues, cmp_desc, cmp_omnibus, cmp_pairwise>>
           ELSE \E p_omnibus \in TestPValues :
                \E p \in [DOMAIN pairs -> TestPValues] :
                \E order \in ArgSorts(p) :
                   LET adj == PAdjust(p, a.p_adjust_method, order)
                   IN  IF adj.raised                                  \* line 259
                       THEN /\ cmp_pc' = "ValueError: p_adjust method"
                            /\ UNCHANGED <<cmp_pvalues, cmp_desc, cmp_omnibus, cmp_pairwise>>
                       ELSE /\ cmp_pvalues' = p
                            /\ cmp_desc' =
                                 Table({"condition", "n", "mean", "median"},
                                       SelectSeq(desc, LAMBDA r : r.condition \in SeqRange(valid)))
                            /\ cmp_omnibus' =
                                 Table({"metric", "time_point", "plate_id", "test_family", "test",
                                        "p_value", "k_groups", "min_n_per_group"},
                                       <<OmnibusRow(a, k, p_omnibus)>>)
                            /\ \E sorted \in SortedByPAdj(PairwiseRows(a, d, pairs, p, adj.out)) :
                                  cmp_pairwise' =
                                     Table({"metric", "time_point", "plate_id", "test_family",
                                            "test", "condition_a", "condition_b", "n_a", "n_b",
                                            "p_value", "p_adj"}, sorted)
                            /\ cmp_pc' = "returned"
    /\ UNCHANGED <<cmp_df, norm_vars, org_vars, fill_vars, cfg_vars, outl_vars,
                   flt_vars, padj_vars, life_vars>>

NextCmp == \E a \in CmpArgs : CompareConditionsAtTimepoint(a)

SpecCmp == InitCmp /\ [][NextCmp]_vars

-----------------------------------------------------------------------------
(* flag_outliers with the default OutlierSpec on one group of many values  *)

\* most rows of the group
MaxGroupN == 11

\* OutlierSpec(): zscore, threshold 3.0, min_group_n 3
DefaultOutlierSpec == [method |-> "zscore", threshold |-> Int2Rat(3), min_group_n |-> 3]

\* a group of c0 values 0, c1 values 1, c3 values 3 and cn absent values
GroupOf(c0, c1, c3, cn) ==
    [i \in 1..(c0 + c1 + c3 + cn) |->
        [plate_id |-> "P1", metric |-> "Number of Bursts", condition |-> "Control",
         time_point |-> 0,
         value |-> IF i <= c0 THEN Int2Rat(0)
                   ELSE IF i <= c0 + c1 THEN Int2Rat(1)
                   ELSE IF i <= c0 + c1 + c3 THEN Int2Rat(3)
                   ELSE NaN]]

LargeGroupInputs ==
    { Table({"plate_id", "metric", "condition", "time_point", "value"}, GroupOf(c[1], c[2], c[3], c[4])) :
        c \in { c \in (0..MaxGroupN) \X (0..MaxGroupN) \X (0..MaxGroupN) \X (0..1) :
                  c[1] + c[2] + c[3] + c[4] <= MaxGroupN } }

InitLargeGroup ==
    /\ outl_df \in LargeGroupInputs
    /\ outl_spec = DefaultOutlierSpec
    /\ flagged = None
    /\ reflagged = None
    /\ outl_pc = "input"
    /\ IdleNorm
    /\ IdleOrg /\ config_handler = FALSE
    /\ IdleFill
    /\ IdleCfg
    /\ IdleFlt
    /\ IdlePadj /\ IdleCmp /\ IdleLife

SpecLargeGroup == InitLargeGroup /\ [][NextOutl]_vars

-----------------------------------------------------------------------------
(* DataOrganizer: any sequence of create_master_dataframe,                  *)
(* get_master_dataframe and save_master_dataframe calls on one organizer,   *)
(* files coming and going between the calls                                 *)

\* most calls made on the organizer
MaxCalls == 4

NotCreatedYet == "Master DataFrame not created yet."

\* the directory without and with a recording
LifeDirs == {OtherFiles, OtherFiles \cup {Name_0_a_csv}}

\* data_loader_func: raises on the recording, or returns one of two tables
LifeLoaders ==
    { LoaderOf({Name_0_a_csv}, [f \in {Name_0_a_csv} |-> "raise"], <<>>) }
    \cup
    { LoaderOf({Name_0_a_csv}, [f \in {Name_0_a_csv} |-> "table"],
               << <<Name_0_a_csv, [Metric |-> "Number of Bursts", Well |-> "A1", Value |-> v]>> >>) :
        v \in {NaN, Int2Rat(10)} }

\* create_master_dataframe(load) on the files found: the error raised, or the
\* table built (lines 145, 279-300)
CreateResult(found, load) ==
    IF found = <<>> THEN [raised |-> "No CSV files with numeric prefix found", value |-> None]
    ELSE LET all_data == LoadAll(found, load)
         IN  IF all_data = <<>>
             THEN [raised |-> "No data was successfully loaded.", value |-> None]
             ELSE [raised |-> "", value |-> BuildMaster(all_data)]

\* a create that forgets the stored table when it fails
StoredAfterCreate_Cleared(before, res) == IF res.raised # "" THEN None ELSE res.value

\* self.master_df after the call: assigned at line 300 only, after every raise
StoredAfterCreate(before, res) == IF res.raised # "" THEN before ELSE res.value

InitLife ==
    /\ data_dir \in LifeDirs
    /\ loader = <<>>
    /\ config_handler \in BOOLEAN
    /\ drop_ignored_wells = FALSE
    /\ ignore_wells = CanonIgnoreWells(ignore_wells_config)
    /\ master_df = None                                               \* line 78
    /\ csv_files = <<>>
    /\ org_result = "none"
    /\ life_calls = 0
    /\ life_op = "none"
    /\ life_ret = NoCall
    /\ life_built = None
    /\ life_file = None
    /\ IdleNorm
    /\ IdleFill
    /\ IdleCfg
    /\ IdleOutl
    /\ IdleFlt
    /\ IdlePadj /\ IdleCmp

\* create_master_dataframe(load)
LifeCreate(load) ==
    /\ life_calls < MaxCalls
    /\ life_calls' = life_calls + 1
    /\ life_op' = "create"
    /\ loader' = load
    /\ \E found \in {DiscoverCsvFiles(g) : g \in Globs(data_dir)} :
          LET res == CreateResult(found, load)
          IN  /\ csv_files' = found
              /\ org_result' = IF res.raised # "" THEN "ValueError" ELSE "ok"
              /\ master_df' = StoredAfterCreate(master_df, res)
              /\ life_ret' = res
              /\ life_built' = IF res.raised # "" THEN life_built ELSE res.value
    /\ UNCHANGED <<data_dir, config_handler, drop_ignored_wells, ignore_wells, life_file,
                   norm_vars, fill_vars, cfg_vars, outl_vars, flt_vars, padj_vars, cmp_vars>>

\* get_master_dataframe()
LifeGet ==
    /\ life_calls < MaxCalls
    /\ life_calls' = life_calls + 1
    /\ life_op' = "get"
    /\ life_ret' = IF master_df = None                                \* lines 317-319
                   THEN [raised |-> NotCreatedYet, value |-> None]
                   ELSE [raised |-> "", value |-> master_df]
    /\ UNCHANGED <<org_vars, life_built, life_file,
                   norm_vars, fill_vars, cfg_vars, outl_vars, flt_vars, padj_vars, cmp_vars>>

\* save_master_dataframe(output_path): life_file is the table written
LifeSave ==
    /\ life_calls < MaxCalls
    /\ life_calls' = life_calls + 1
    /\ life_op' = "save"
    /\ IF master_df = None                                            \* lines 322-323
       THEN /\ life_ret' = [raised |-> NotCreatedYet, value |-> None]
            /\ UNCHANGED life_file
       ELSE /\ life_ret' = NoCall
            /\ life_file' = master_df                                 \* line 327
    /\ UNCHANGED <<org_vars, life_built,
                   norm_vars, fill_vars, cfg_vars, outl_vars, flt_vars, padj_vars, cmp_vars>>

\* between two calls recordings are added to or removed from the directory
DirectoryChanges ==
    /\ life_calls < MaxCalls
    /\ data_dir' \in LifeDirs \ {data_dir}
    /\ UNCHANGED <<loader, config_handler, drop_ignored_wells, ignore_wells, master_df,
                   csv_files, org_result, life_vars,
                   norm_vars, fill_vars, cfg_vars, outl_vars, flt_vars, padj_vars, cmp_vars>>

NextLife ==
    \/ \E load \in LifeLoaders : LifeCreate(load)
    \/ LifeGet
    \/ LifeSave
    \/ DirectoryChanges

SpecLife == InitLife /\ [][NextLife]_vars

-----------------------------------------------------------------------------
(* The checks at the entry of baseline_normalize, flag_outliers,            *)
(* apply_outlier_filter, compare_conditions_at_timepoint and p_adjust: one  *)
(* call of one of them on a table that may lack columns, with a method name *)
(* that may be unknown                                                      *)

\* table t without the columns in drop
WithoutColumns(t, drop) ==
    Table(t.columns \ drop, MapRows(t.rows, LAMBDA r : Project(r, DOMAIN r \ drop)))

\* the tables made from the tables in base by leaving columns in cols out
Projections(base, cols) == { WithoutColumns(t, drop) : t \in base, drop \in SUBSET cols }

EntryRow(w, t, v) ==
    [plate_id |-> "P1", well |-> w, metric |-> "Number of Bursts", condition |-> "Control",
     time_point |-> t, value |-> v]

EntryColumns == {"plate_id", "well", "metric", "condition", "time_point", "value"}

\* an empty table and the two rows of a well
EntryTables ==
    { Table(EntryColumns, <<>>),
      Table(EntryColumns, <<EntryRow("A1", 0, Int2Rat(1)), EntryRow("A1", 1, Int2Rat(2))>>) }

\* a flagged and an unflagged row, or no row
EntryFlagged ==
    { Table(EntryColumns \cup {"is_outlier"}, <<>>),
      Table(EntryColumns \cup {"is_outlier"},
            <<WithCol(EntryRow("A1", 0, Int2Rat(1)), "is_outlier", TRUE),
              WithCol(EntryRow("B1", 0, Int2Rat(1)), "is_outlier", FALSE)>>) }

\* two conditions with one value each at time point 1, or no row
EntryCompared ==
    { Table({"metric", "time_point", "plate_id", "condition", "value"}, rs) :
        rs \in { <<>>,
                 <<CmpRow("Number of Bursts", 1, "P1", "Control", Int2Rat(1)),
                   CmpRow("Number of Bursts", 1, "P1", "DrugA", Int2Rat(1))>> } }

EntryOutlierSpecs ==
    [method : {"zscore", "iqr"}, threshold : {Int2Rat(1)}, min_group_n : OutlierMinGroupN]

EntryCmpArgs ==
    [metric : {"Number of Bursts"}, time_point : {1}, plate_id : {Null, "P1"},
     min_n_per_group : {1}, test_family : {"nonparametric"},
     p_adjust_method : {"fdr_bh", "sidak"}]

InitEntry ==
    /\ IdleOrg /\ config_handler = FALSE
    /\ IdleFill
    /\ IdleCfg
    /\ IdleLife
    /\ \/ /\ df \in Projections(EntryTables, EntryColumns \ {"condition"})
          /\ method = ""
          /\ exclude_zero_baseline = FALSE
          /\ keep_excluded_rows = FALSE
          /\ merged = None
          /\ out = None
          /\ baseline_qc = None
          /\ norm_pc = "input"
          /\ IdleOutl /\ IdleFlt /\ IdlePadj /\ IdleCmp
       \/ /\ outl_df \in Projections(EntryTables, EntryColumns \ {"well"})
          /\ outl_spec \in EntryOutlierSpecs
          /\ flagged = None
          /\ reflagged = None
          /\ outl_pc = "input"
          /\ IdleNorm /\ IdleFlt /\ IdlePadj /\ IdleCmp
       \/ /\ flt_df \in Projections(EntryFlagged, {"plate_id", "well", "metric", "is_outlier"})
          /\ flt_mode = ""
          /\ flt_out = None
          /\ flt_pc = "input"
          /\ IdleNorm /\ IdleOutl /\ IdlePadj /\ IdleCmp
       \/ /\ cmp_df \in Projections(EntryCompared,
                                    {"metric", "time_point", "plate_id", "condition", "value"})
          /\ cmp_args = <<>>
          /\ cmp_pvalues = <<>>
          /\ cmp_desc = None
          /\ cmp_omnibus = None
          /\ cmp_pairwise = None
          /\ cmp_pc = "input"
          /\ IdleNorm /\ IdleOutl /\ IdleFlt /\ IdlePadj
       \/ /\ padj_pvals \in SeqsUpTo({Rat(1, 4), Int2Rat(1)}, 2)
          /\ padj_method = ""
          /\ padj_out = <<>>
          /\ padj_pc = "input"
          /\ IdleNorm /\ IdleOutl /\ IdleFlt /\ IdleCmp

NextEntry ==
    \/ \E m \in Methods \cup {"log"}, ez \in BOOLEAN : BaselineNormalize(m, ez, FALSE)
    \/ Flag
    \/ FlagAgain
    \/ \E mode \in FilterModes \cup {"drop"} : ApplyFilter(mode)
    \/ \E a \in EntryCmpArgs : CompareConditionsAtTimepoint(a)
    \/ \E adjust \in AdjustMethods \cup {"sidak"} : CallPAdjust(adjust)

SpecEntry == InitEntry /\ [][NextEntry]_vars

-----------------------------------------------------------------------------
(* Properties of baseline_normalize, stated from the input table df alone  *)

NormKeyColumns ==
    IF "plate_id" \in df.columns THEN {"plate_id", "well", "metric"} ELSE {"well", "metric"}

CanonCell(r, c) == IF c = "well" THEN StripUpper(r[c]) ELSE r[c]

\* rows a and b belong to the same group
SameGroup(a, b) == \A c \in NormKeyColumns : CanonCell(a, c) = CanonCell(b, c)

\* the input rows whose value enters the baseline of row r's group
Contributors(r) ==
    { j \in DOMAIN df.rows : /\ df.rows[j].time_point = baseline_time_point
                             /\ SameGroup(df.rows[j], r)
                             /\ df.rows[j].value # NaN }

\* the sum of the (integer) input values at the indices S
RECURSIVE IntSum(_)
IntSum(S) ==
    IF S = {} THEN 0
    ELSE LET j == CHOOSE x \in S : TRUE IN df.rows[j].value[1] + IntSum(S \ {j})

\* b is the mean of the contributors of r's group, absent when there are none
IsBaselineOf(b, r) ==
    LET S == Contributors(r)
    IN  IF S = {} THEN b = NaN
        ELSE b[2] > 0 /\ b[1] * Cardinality(S) = b[2] * IntSum(S)

\* q is the float quotient a/b of two integers
IsQuotient(q, a, b) ==
    IF b = 0 THEN q = <<Sign(a), 0>> ELSE q[2] > 0 /\ q[1] * b = a * q[2]

\* q is row r's value normalized by its group's baseline under `method`
IsNormalizedOf(q, r) ==
    LET S == Contributors(r)
        n == Cardinality(S)
        v == r.value
    IN  IF v = NaN THEN q = NaN
        ELSE CASE method = "ratio"   -> IsQuotient(q, v[1] * n, IntSum(S))
               [] method = "percent" -> IsQuotient(q, 100 * v[1] * n, IntSum(S))
               [] method = "delta"   -> q[2] > 0 /\ q[1] * n = (v[1] * n - IntSum(S)) * q[2]

\* the exclusion reason the rules give row r
ExpectedReason(r) ==
    LET S == Contributors(r)
    IN  IF S = {} THEN "baseline_missing"
        ELSE IF method \in {"ratio", "percent"} /\ exclude_zero_baseline /\ IntSum(S) = 0
             THEN "baseline_zero"
             ELSE Null

\* row r's value is a number equal to its group's baseline
ValueEqualsBaseline(r) ==
    LET S == Contributors(r)
    IN  S # {} /\ r.value # NaN /\ r.value[1] * Cardinality(S) = IntSum(S)

Returned == norm_pc = "returned"

\* C1: every row of the joined frame and of the returned table that carries
\* no exclusion reason has normalized value value/baseline (ratio),
\* 100*value/baseline (percent) or value-baseline (delta), baseline being the
\* mean of its group's baseline values; every row that carries a reason has
\* an absent normalized value.  For a two-row table (time point 0 with v0 # 0,
\* time point 1 with v1, same group) ratio gives v1/v0 at time point 1.
C1_NormalizedValue ==
    Returned =>
        /\ \A r \in SeqRange(merged.rows) \cup SeqRange(out.rows) :
              IF r["_baseline_exclusion_reason"] = Null
              THEN IsNormalizedOf(r[normalized_col], r)
              ELSE r[normalized_col] = NaN
        /\ ( /\ Len(df.rows) = 2 /\ method = "ratio"
             /\ df.rows[1].time_point = 0 /\ df.rows[2].time_point = 1
             /\ SameGroup(df.rows[1], df.rows[2])
             /\ df.rows[1].value \notin {NaN, Int2Rat(0)} /\ df.rows[2].value # NaN )
            => /\ Len(out.rows) = 2
               /\ out.rows[2][normalized_col][1] * df.rows[1].value[1]
                    = df.rows[2].value[1] * out.rows[2][normalized_col][2]

\* C1 witness: the master table of files 0_a.csv (A1, Number of Bursts, 10)
\* and 1_a.csv (20), well A1 in condition Control, normalized by ratio: the
\* row of time point 1 has value_norm 2
C1_Witness ==
    /\ Returned /\ method = "ratio"
    /\ "condition" \in df.columns
    /\ Len(df.rows) = 2
    /\ df.rows[1].value = Int2Rat(10) /\ df.rows[2].value = Int2Rat(20)
    /\ \E r \in SeqRange(out.rows) :
          /\ r.well = "A1" /\ r.metric = "Number of Bursts" /\ r.condition = "Control"
          /\ r.time_point = 1 /\ r[normalized_col] = Int2Rat(2)

\* C1, second witness: one call returns a row normalized to 100 percent and
\* a kept excluded row with an absent normalized value
C1_WitnessExcluded ==
    /\ Returned /\ method = "percent" /\ keep_excluded_rows
    /\ \E i, j \in DOMAIN out.rows :
          /\ out.rows[i]["_baseline_exclusion_reason"] = Null
          /\ out.rows[i][normalized_col] = Int2Rat(100)
          /\ out.rows[j]["_baseline_exclusion_reason"] # Null
          /\ out.rows[j][normalized_col] = NaN

\* C2: the baseline joined to each row is the mean of the non-absent values
\* of the baseline-time-point rows of its (plate_id,) well, metric group,
\* and is absent when the group has no such value.
C2_GroupBaseline ==
    Returned =>
        /\ Len(merged.rows) = Len(df.rows)
        /\ \A i \in DOMAIN merged.rows :
              IsBaselineOf(merged.rows[i]["_baseline_value"], df.rows[i])

\* C2 witness: two baseline rows of one group (values 0 and 2) are averaged to 1
\* although the table holds no row with value 1
C2_Witness ==
    /\ Returned
    /\ Len(df.rows) = 2
    /\ "plate_id" \in df.columns
    /\ SameGroup(df.rows[1], df.rows[2])
    /\ df.rows[1].time_point = 0 /\ df.rows[2].time_point = 0
    /\ df.rows[1].value = Int2Rat(0) /\ df.rows[2].value = Int2Rat(2)
    /\ merged.rows[1]["_baseline_value"] = Int2Rat(1)

\* C2 witness of the plate separation: same well and metric on two plates
C2_WitnessPlates ==
    /\ Returned
    /\ Len(df.rows) = 2
    /\ "plate_id" \in df.columns
    /\ df.rows[1].plate_id # df.rows[2].plate_id
    /\ StripUpper(df.rows[1].well) = StripUpper(df.rows[2].well)
    /\ df.rows[1].metric = df.rows[2].metric
    /\ df.rows[1].time_point = 0 /\ df.rows[2].time_point = 1
    /\ df.rows[1].value = Int2Rat(2)
    /\ merged.rows[2]["_baseline_value"] = NaN

\* C3: each row's reason is baseline_missing exactly when its group has no
\* baseline value; otherwise baseline_zero exactly when the method is ratio
\* or percent, exclude_zero_baseline is set and the baseline is 0; otherwise
\* none.
C3_ExclusionReason ==
    Returned =>
        \A i \in DOMAIN merged.rows :
            merged.rows[i]["_baseline_exclusion_reason"] = ExpectedReason(df.rows[i])

\* C3 witness: one call marks a row baseline_zero and another baseline_missing
C3_Witness ==
    /\ Returned
    /\ \E i, j \in DOMAIN merged.rows :
          /\ merged.rows[i]["_baseline_exclusion_reason"] = "baseline_zero"
          /\ merged.rows[j]["_baseline_exclusion_reason"] = "baseline_missing"

\* C3 witness for delta: a zero baseline with exclude_zero_baseline set is not excluded
C3_WitnessDelta ==
    /\ Returned /\ method = "delta" /\ exclude_zero_baseline
    /\ \E i \in DOMAIN merged.rows :
          /\ merged.rows[i]["_baseline_value"] = Int2Rat(0)
          /\ merged.rows[i]["_baseline_exclusion_reason"] = Null

\* the value a row equal to its baseline should normalize to
RoundTripTarget == 
    CASE method = "ratio" -> Int2Rat(1)
      [] method = "percent" -> Int2Rat(100)
      [] method = "delta" -> Int2Rat(0)
      [] OTHER -> NaN

\* C4 as claimed: for every setting of the flags, every returned row whose
\* value equals its group's baseline has normalized value 1 (ratio),
\* 100 (percent), 0 (delta).
C4_RoundTripAsClaimed ==
    Returned =>
        \A r \in SeqRange(out.rows) :
            ValueEqualsBaseline(r) => r[normalized_col] = RoundTripTarget

\* C4 amended: every returned row whose value equals its group's baseline
\* normalizes to 0 under delta, and to 1 (ratio) or 100 (percent) when that
\* baseline is not 0.
C4_RoundTrip ==
    Returned =>
        \A r \in SeqRange(out.rows) :
            ( /\ ValueEqualsBaseline(r)
              /\ (method \in {"ratio", "percent"} => r.value # Int2Rat(0)) )
            => r[normalized_col] = RoundTripTarget

\* C4 witness: a row equal to its non-zero baseline under percent
C4_Witness ==
    /\ Returned /\ method = "percent"
    /\ \E r \in SeqRange(out.rows) :
          /\ ValueEqualsBaseline(r) /\ r.value = Int2Rat(2)
          /\ r[normalized_col] = Int2Rat(100)

\* the input rows with canonical wells: what the returned rows are compared to
CanonRows == MapRows(df.rows, LAMBDA r : WithCol(r, "well", StripUpper(r.well)))

InputPart(rows) == MapRows(rows, LAMBDA r : Project(r, df.columns))

\* C5: with keep_excluded_rows the returned table has one row per input row,
\* in order, and its excluded rows have an absent normalized value; without
\* it the returned rows are exactly the input rows without exclusion reason.
C5_OutputPolicy ==
    Returned =>
        IF keep_excluded_rows
        THEN /\ InputPart(out.rows) = CanonRows
             /\ \A i \in DOMAIN out.rows :
                   ExpectedReason(df.rows[i]) # Null => out.rows[i][normalized_col] = NaN
        ELSE InputPart(out.rows) = SelectSeq(CanonRows, LAMBDA r : ExpectedReason(r) = Null)

\* C5 witness: duplicate baseline rows and an excluded group, excluded row dropped
C5_Witness ==
    /\ Returned /\ ~keep_excluded_rows
    /\ Len(df.rows) = 2 /\ Len(out.rows) = 1
    /\ ExpectedReason(df.rows[1]) # Null

\* C5 witness: two baseline rows of one group are both kept, once each
C5_WitnessKeep ==
    /\ Returned /\ keep_excluded_rows
    /\ Len(df.rows) = 2 /\ Len(out.rows) = 2
    /\ SameGroup(df.rows[1], df.rows[2])
    /\ df.rows[1].time_point = 0 /\ df.rows[2].time_point = 0

\* C6 as claimed: the returned table has only the input's columns plus the
\* normalized column; no helper column of the join or of the exclusion
\* bookkeeping is in it.
C6_NoHelperColumns ==
    Returned =>
        /\ out.columns \subseteq df.columns \cup {normalized_col}
        /\ \A r \in SeqRange(out.rows) : DOMAIN r \subseteq df.columns \cup {normalized_col}

\* group key of a row as a tuple of ranks, in key_cols order
KeyRank(r) ==
    IF "plate_id" \in df.columns
    THEN <<StrRank(r.plate_id), StrRank(r.well), StrRank(r.metric)>>
    ELSE <<0, StrRank(r.well), StrRank(r.metric)>>

TupleLess(a, b) ==
    \/ a[1] < b[1]
    \/ a[1] = b[1] /\ a[2] < b[2]
    \/ a[1] = b[1] /\ a[2] = b[2] /\ a[3] < b[3]

\* C7: the QC table has one row for each group that has an excluded row,
\* with the group's baseline and reason, none for other groups, in strictly
\* ascending group-key order (so it is determined by df, method and
\* exclude_zero_baseline alone, whatever keep_excluded_rows is).
C7_QCTable ==
    Returned =>
        /\ baseline_qc.columns = NormKeyColumns \cup {"baseline_value", "exclusion_reason"}
        /\ \A i \in DOMAIN df.rows :
              ExpectedReason(df.rows[i]) # Null =>
                \E k \in DOMAIN baseline_qc.rows :
                    /\ SameGroup(baseline_qc.rows[k], df.rows[i])
                    /\ baseline_qc.rows[k].exclusion_reason = ExpectedReason(df.rows[i])
                    /\ IsBaselineOf(baseline_qc.rows[k].baseline_value, df.rows[i])
        /\ \A k \in DOMAIN baseline_qc.rows :
              \E i \in DOMAIN df.rows :
                  /\ SameGroup(baseline_qc.rows[k], df.rows[i])
                  /\ ExpectedReason(df.rows[i]) # Null
        /\ \A k, l \in DOMAIN baseline_qc.rows :
              k < l => TupleLess(KeyRank(baseline_qc.rows[k]), KeyRank(baseline_qc.rows[l]))

\* C7 witness: baseline 0 under percent with zero exclusion: one QC entry
\* baseline_zero for the two rows of the group, none of them returned
C7_Witness ==
    /\ Returned /\ method = "percent" /\ exclude_zero_baseline /\ ~keep_excluded_rows
    /\ Len(df.rows) = 2 /\ SameGroup(df.rows[1], df.rows[2])
    /\ Len(baseline_qc.rows) = 1
    /\ baseline_qc.rows[1].exclusion_reason = "baseline_zero"
    /\ baseline_qc.rows[1].baseline_value = Int2Rat(0)
    /\ out.rows = <<>>

-----------------------------------------------------------------------------
(* Properties of the DataOrganizer                                         *)

Created == org_result = "ok"

\* C8 as claimed: the master table holds at most one row for any
\* (plate_id, well, metric, time_point).
C8_MasterRecordUnique ==
    Created =>
        \A i, j \in DOMAIN master_df.rows :
            ( /\ master_df.rows[i].plate_id = master_df.rows[j].plate_id
              /\ master_df.rows[i].well = master_df.rows[j].well
              /\ master_df.rows[i].metric = master_df.rows[j].metric
              /\ master_df.rows[i].time_point = master_df.rows[j].time_point )
            => i = j

\* the metric_type a row of the fill step carries, "" when the table has no
\* such column before or after the step
FillType(i) ==
    IF "metric_type" \in fill_in.columns THEN fill_in.rows[i].metric_type
    ELSE IF "metric_type" \in fill_out.columns THEN fill_out.rows[i].metric_type
    ELSE ""

\* the fill rules hold between the table passed and the table returned
FillRulesHold ==
    /\ Len(fill_out.rows) = Len(fill_in.rows)
    /\ \A i \in DOMAIN fill_in.rows :
          /\ fill_out.rows[i].metric = fill_in.rows[i].metric
          /\ ( fill_in.rows[i].value = NaN /\ FillType(i) \in {"count", "rate"} )
                => fill_out.rows[i].value = Int2Rat(0)
          /\ ( fill_in.rows[i].value = NaN
               /\ FillType(i) \in {"interval_duration", "derived", "unknown"} )
                => fill_out.rows[i].value = NaN
          /\ fill_in.rows[i].value # NaN => fill_out.rows[i].value = fill_in.rows[i].value

\* C9 as claimed: for every table passed to the fill step, absent count/rate
\* values become 0, absent interval_duration/derived/unknown values stay
\* absent, present values are kept and the number of rows is unchanged.
C9_FillAsClaimed == fill_pc = "returned" => FillRulesHold

\* C9 amended: that holds whenever the organizer has a config handler (a
\* table without metric_type column is first classified by metric name);
\* without one the table is returned unchanged.
C9_Fill ==
    fill_pc = "returned" =>
        /\ config_handler => FillRulesHold
        /\ config_handler =>
              \A i \in DOMAIN fill_in.rows :
                  "metric_type" \notin fill_in.columns =>
                      fill_out.rows[i].metric_type = get_metric_type(fill_in.rows[i].metric)
        /\ ~config_handler => fill_out = fill_in

\* C9 witness: an absent count value filled with 0 beside an absent derived
\* value left absent
C9_Witness ==
    /\ fill_pc = "returned" /\ config_handler
    /\ \E i, j \in DOMAIN fill_in.rows :
          /\ fill_out.rows[i].metric_type = "count"
          /\ fill_in.rows[i].value = NaN /\ fill_out.rows[i].value = Int2Rat(0)
          /\ fill_out.rows[j].metric_type = "derived"
          /\ fill_in.rows[j].value = NaN /\ fill_out.rows[j].value = NaN

\* processing discovered file f succeeds: the loader returns a table that has
\* the columns the organizer reads
Succeeds(f) ==
    /\ ~loader[f].raised
    /\ "Well" \in loader[f].columns
    /\ config_handler => "Metric" \in loader[f].columns

\* a row of a loaded file is removed as an ignored well
DroppedAsIgnored(r) ==
    drop_ignored_wells /\ \E i \in DOMAIN ignore_wells : ignore_wells[i] = StripUpper(r.Well)

\* the rows file f, discovered with time point tp, should contribute
Contribution(tp, f) ==
    IF ~Succeeds(f) THEN <<>>
    ELSE LET kept == SelectSeq(loader[f].rows, LAMBDA r : ~DroppedAsIgnored(r))
         IN  [i \in 1..Len(kept) |->
                [metric |-> kept[i].Metric, well |-> StripUpper(kept[i].Well),
                 time_point |-> tp, loaded |-> kept[i].Value]]

RECURSIVE Contributions(_)
Contributions(files) ==
    IF files = <<>> THEN <<>>
    ELSE Contribution(Head(files)[1], Head(files)[2]) \o Contributions(Tail(files))

DigitPrefix(name, k) ==
    /\ k >= 1 /\ k < Len(name)
    /\ \A i \in 1..k : name[i] \in {"0", "1", "2", "3", "4", "5", "6", "7", "8", "9"}
    /\ name[k + 1] = "_"

HasCsvSuffix(name) ==
    Len(name) >= 4 /\ SubSeq(name, Len(name) - 3, Len(name)) = <<".", "c", "s", "v">>

\* the decimal value of the first k characters of name
RECURSIVE Decimal(_, _)
Decimal(name, k) ==
    IF k = 0 THEN 0
    ELSE 10 * Decimal(name, k - 1)
         + (CHOOSE d \in 0..9 : <<"0", "1", "2", "3", "4", "5", "6", "7", "8", "9">>[d + 1] = name[k])

\* the (time point, file) pairs discovery should return
ExpectedPairs ==
    UNION { { <<Decimal(f, k), f>> : k \in {n \in 1..Len(f) : DigitPrefix(f, n)} } :
            f \in {g \in data_dir : HasCsvSuffix(g)} }

\* C11: discovery returns exactly the .csv files named <digits>_..., each once
\* and paired with its leading integer, in ascending time-point order; the
\* master rows are in non-decreasing time_point order; with no matching file
\* the call fails.
C11_Discovery ==
    org_result # "none" =>
        /\ {csv_files[i] : i \in DOMAIN csv_files} = ExpectedPairs
        /\ Len(csv_files) = Cardinality(ExpectedPairs)
        /\ \A i, j \in DOMAIN csv_files : i < j => csv_files[i][1] <= csv_files[j][1]
        /\ ExpectedPairs = {} => org_result = "ValueError"
        /\ Created =>
              \A i, j \in DOMAIN master_df.rows :
                  i < j => master_df.rows[i].time_point <= master_df.rows[j].time_point

\* C11 witness: files 0_a.csv, 00_b.csv and 1_a.csv discovered (beside n.csv and
\* 2_a.txt, which are not), rows of time point 0 before a row of time point 1
C11_Witness ==
    /\ Created
    /\ Len(csv_files) = 3
    /\ csv_files[1][1] = 0 /\ csv_files[2][1] = 0 /\ csv_files[3] = <<1, Name_1_a_csv>>
    /\ Len(master_df.rows) = 2
    /\ master_df.rows[1].time_point = 0 /\ master_df.rows[2].time_point = 1

\* the conditions of the experiment configuration that list canonical well w
ListedUnder(w) ==
    { i \in DOMAIN conditions :
        \E k \in DOMAIN conditions[i].wells : StripUpper(conditions[i].wells[k]) = w }

\* the rows, as loaded, of the discovered files that were processed successfully
RECURSIVE LoadedRows(_)
LoadedRows(files) ==
    IF files = <<>> THEN <<>>
    ELSE (IF Succeeds(Head(files)[2]) THEN loader[Head(files)[2]].rows ELSE <<>>)
         \o LoadedRows(Tail(files))

Ignored(w) == \E i \in DOMAIN ignore_wells_config : StripUpper(ignore_wells_config[i]) = w

CountLoaded(w) == Len(SelectSeq(LoadedRows(csv_files), LAMBDA r : StripUpper(r.Well) = w))

CountMaster(w) == Len(SelectSeq(master_df.rows, LAMBDA r : r.well = w))

CanonicalWells == {"A1", "B1", "C1", "D1"}

\* C12: a master row's condition is the condition listing its (canonical)
\* well and its color is that condition's; rows of wells that no condition
\* lists are kept, with null condition and null color.
C12_ConditionMapping ==
    Created =>
        /\ \A k \in DOMAIN master_df.rows :
              LET r == master_df.rows[k]
              IN  /\ r.well \in CanonicalWells
                  /\ \A i \in ListedUnder(r.well) :
                        /\ r.condition = conditions[i].name
                        /\ r.condition_color = conditions[i].color
                  /\ ListedUnder(r.well) = {} =>
                        r.condition = Null /\ r.condition_color = Null
        /\ \A w \in CanonicalWells :
              (ListedUnder(w) = {} /\ ~Ignored(w)) => CountMaster(w) = CountLoaded(w)

\* C12 witness: a row of well D1 (unassigned) beside a row of well A1 (Control)
C12_Witness ==
    /\ Created
    /\ \E i, j \in DOMAIN master_df.rows :
          /\ master_df.rows[i].well = "D1" /\ master_df.rows[i].condition = Null
          /\ master_df.rows[j].well = "A1" /\ master_df.rows[j].condition = "Control"
          /\ master_df.rows[j].condition_color = "#1f77b4"

\* C13: with drop_ignored_wells, no master row has a well of the ignore list
\* (both sides trimmed and uppercased) and every row of another well of a
\* successfully processed file is there; without it the ignored wells' rows
\* are kept too.
C13_IgnoredWells ==
    Created =>
        \A w \in CanonicalWells :
            CountMaster(w) = IF drop_ignored_wells /\ Ignored(w) THEN 0 ELSE CountLoaded(w)

\* C13 witness: a file with a row of the ignored well (written " b1" in the
\* file, "b1" in the configuration) and a row of well A1; only the latter is kept
C13_Witness ==
    /\ Created /\ drop_ignored_wells
    /\ CountLoaded("B1") = 1 /\ CountLoaded("A1") = 1
    /\ Len(master_df.rows) = 1 /\ master_df.rows[1].well = "A1"

\* C13 witness: the same with drop_ignored_wells off, both rows kept
C13_WitnessKept ==
    /\ Created /\ ~drop_ignored_wells
    /\ CountLoaded("B1") = 1 /\ CountMaster("B1") = 1

-----------------------------------------------------------------------------
(* Properties of the experiment configuration                              *)

\* the conditions of the configuration file that list canonical well w
CfgListedUnder(w) ==
    { experiment_config.conditions[i].name : i \in
        { i \in DOMAIN experiment_config.conditions :
            \E k \in DOMAIN experiment_config.conditions[i].wells :
                StripUpper(experiment_config.conditions[i].wells[k]) = w } }

CfgAssignedWells == {w \in VALID_WELLS : CfgListedUnder(w) # {}}

CfgIgnoredWells ==
    {StripUpper(experiment_config.ignore_wells[i]) : i \in DOMAIN experiment_config.ignore_wells}

\* C14 as claimed: building the mapping raises exactly when some canonical
\* well is listed under two or more distinct conditions; otherwise the
\* mapping sends each listed well to the one condition listing it and holds
\* no other well.
C14_MappingValidation ==
    cfg_pc \in {"constructed", "rejected"} =>
        /\ cfg_pc = "rejected" <=> \E w \in VALID_WELLS : Cardinality(CfgListedUnder(w)) >= 2
        /\ cfg_pc = "constructed" =>
              /\ DOMAIN cfg_well_to_condition = CfgAssignedWells
              /\ \A w \in CfgAssignedWells : CfgListedUnder(w) = {cfg_well_to_condition[w]}

\* C15 as claimed: no DataOrganizer is constructed from a configuration whose
\* ignored wells overlap its condition-assigned wells.
C15_IgnoreOverlapRejected ==
    cfg_pc = "constructed" => CfgIgnoredWells \cap CfgAssignedWells = {}

\* the creator's half of C15: it writes no configuration with such an overlap
CreatorRejectsOverlap ==
    experiment_config.by = "creator" => CfgIgnoredWells \cap CfgAssignedWells = {}

-----------------------------------------------------------------------------
(* Properties of flag_outliers, stated from the input table outl_df        *)

Flagged == outl_pc \in {"flagged", "reflagged"}

GroupKeyColumns == {"plate_id", "metric", "condition", "time_point"}

\* the input rows that have a group: no null in the group key
InGroup(j) ==
    /\ outl_df.rows[j].plate_id # Null
    /\ outl_df.rows[j].metric # Null
    /\ outl_df.rows[j].condition # Null

\* the input rows with a non-absent value in the group of row r
Valid(r) ==
    { j \in DOMAIN outl_df.rows :
        /\ \A c \in GroupKeyColumns : outl_df.rows[j][c] = r[c]
        /\ outl_df.rows[j].value # NaN }

\* sum of the (integer) values, and of their squares, of the input rows J
RECURSIVE ValueSum(_)
ValueSum(J) ==
    IF J = {} THEN 0
    ELSE LET j == CHOOSE x \in J : TRUE
         IN  outl_df.rows[j].value[1] + ValueSum(J \ {j})

RECURSIVE SquareSum(_)
SquareSum(J) ==
    IF J = {} THEN 0
    ELSE LET j == CHOOSE x \in J : TRUE
         IN  outl_df.rows[j].value[1] * outl_df.rows[j].value[1] + SquareSum(J \ {j})

\* the k-th smallest of the numbers val(j), j in J
KthSmallest(J, val(_), k) ==
    CHOOSE x \in {val(j) : j \in J} :
        /\ Cardinality({j \in J : val(j) < x}) < k
        /\ k <= Cardinality({j \in J : val(j) <= x})

\* twice the median of the numbers val(j), j in J (J not empty)
TwiceMedian(J, val(_)) ==
    LET n == Cardinality(J)
    IN  IF n % 2 = 1 THEN 2 * KthSmallest(J, val, (n + 1) \div 2)
        ELSE KthSmallest(J, val, n \div 2) + KthSmallest(J, val, (n \div 2) + 1)

GroupN(r) == Cardinality(Valid(r))

\* n(n-1) times the sample variance of r's group
VarNumerator(r) == GroupN(r) * SquareSum(Valid(r)) - ValueSum(Valid(r)) * ValueSum(Valid(r))

\* twice the median of r's group
Median2(r) == TwiceMedian(Valid(r), LAMBDA j : outl_df.rows[j].value[1])

\* four times the median absolute deviation of r's group
Mad4(r) == TwiceMedian(Valid(r), LAMBDA j : Abs(2 * outl_df.rows[j].value[1] - Median2(r)))

\* r's group gets scores: enough values, and a dispersion that is defined and not 0
IsScored(r) ==
    /\ GroupN(r) >= outl_spec.min_group_n
    /\ GroupN(r) >= 1
    /\ IF outl_spec.method = "zscore"
       THEN GroupN(r) >= 2 /\ VarNumerator(r) # 0
       ELSE Mad4(r) # 0

\* the score of row r, with value x, as the pair <<num, var>> (num / sqrt(var))
ExpectedScore(r) ==
    LET x == r.value[1]
        n == GroupN(r)
    IN  IF outl_spec.method = "zscore"
        THEN <<Rat(n * x - ValueSum(Valid(r)), n), Rat(VarNumerator(r), n * (n - 1))>>
        ELSE <<Rat(6745 * 2 * (2 * x - Median2(r)), 10000 * Mad4(r)), <<1, 1>>>>

\* |score of r| >= threshold, in integers
ReachesThreshold(r) ==
    LET x == r.value[1]
        n == GroupN(r)
        tn == outl_spec.threshold[1]
        td == outl_spec.threshold[2]
    IN  IF outl_spec.method = "zscore"
        THEN td * td * (n * x - ValueSum(Valid(r))) * (n * x - ValueSum(Valid(r))) * (n - 1)
                >= tn * tn * n * VarNumerator(r)
        ELSE 6745 * 2 * Abs(2 * x - Median2(r)) * td >= tn * 10000 * Mad4(r)

\* the rows returned are the input rows that have a group, in order
GroupedRowsReturned ==
    LET kept == SelectSeq([j \in DOMAIN outl_df.rows |-> j], InGroup)
    IN  /\ Len(flagged.rows) = Len(kept)
        /\ \A k \in DOMAIN kept :
              \A c \in outl_df.columns : flagged.rows[k][c] = outl_df.rows[kept[k]][c]

C16_WitnessSmall ==
    /\ Flagged /\ outl_spec.min_group_n = 3
    /\ \E i, j \in DOMAIN flagged.rows :
          /\ flagged.rows[i].condition = "Drug" /\ flagged.rows[i].value = Int2Rat(0)
          /\ flagged.rows[j].condition = "Drug" /\ flagged.rows[j].value = Int2Rat(2)
          /\ flagged.rows[i].outlier_group_n = 2
          /\ flagged.rows[i].is_outlier = FALSE

\* C16 witness: with min_group_n 1, a group of one value under zscore
\* (standard deviation undefined)
C16_WitnessUndefined ==
    /\ Flagged /\ outl_spec.min_group_n = 1 /\ outl_spec.method = "zscore"
    /\ \E i \in DOMAIN flagged.rows :
          /\ flagged.rows[i].outlier_group_n = 1
          /\ flagged.rows[i].value # NaN
          /\ flagged.rows[i].outlier_score = ScoreNaN

\* C17: in a scored group a row is flagged exactly when its value is not
\* absent and |score| >= threshold, the score being (x - mean)/std for zscore
\* and 0.6745 (x - median)/MAD for robust_zscore over the group's non-absent
\* values; a row with an absent value is never flagged.
C17_FlagRule ==
    Flagged =>
        \A k \in DOMAIN flagged.rows :
            LET r == flagged.rows[k]
            IN  /\ r.value = NaN => (r.is_outlier = FALSE /\ r.outlier_score = ScoreNaN)
                /\ (IsScored(r) /\ r.value # NaN) =>
                      /\ r.outlier_score = ExpectedScore(r)
                      /\ r.is_outlier = ReachesThreshold(r)

\* C17 witness: zscore, threshold 1, values 0, 1, 2 (mean 1, deviation 1): the
\* rows at distance exactly 1 are flagged, the middle one is not
C17_Witness ==
    /\ Flagged /\ outl_spec.method = "zscore" /\ outl_spec.threshold = Int2Rat(1)
    /\ Len(flagged.rows) = 3
    /\ \A k \in 1..3 : flagged.rows[k].condition = "Control"
    /\ flagged.rows[1].value = Int2Rat(0) /\ flagged.rows[1].is_outlier = TRUE
    /\ flagged.rows[1].outlier_score = <<Int2Rat(-1), Int2Rat(1)>>
    /\ flagged.rows[2].value = Int2Rat(1) /\ flagged.rows[2].is_outlier = FALSE
    /\ flagged.rows[3].value = Int2Rat(2) /\ flagged.rows[3].is_outlier = TRUE

\* C17 witness: robust_zscore, threshold 1/2, values 0, 1, 2 (median 1, MAD 1):
\* scores -0.6745, 0, 0.6745
C17_WitnessRobust ==
    /\ Flagged /\ outl_spec.method = "robust_zscore" /\ outl_spec.threshold = Rat(1, 2)
    /\ Len(flagged.rows) = 3
    /\ flagged.rows[1].value = Int2Rat(0) /\ flagged.rows[1].is_outlier = TRUE
    /\ flagged.rows[1].outlier_score = <<Rat(-6745, 10000), Int2Rat(1)>>
    /\ flagged.rows[2].value = Int2Rat(1) /\ flagged.rows[2].is_outlier = FALSE
    /\ flagged.rows[3].value = Int2Rat(2) /\ flagged.rows[3].is_outlier = TRUE

\* C17 witness: a scored group with an absent value, which is not flagged
C17_WitnessAbsent ==
    /\ Flagged
    /\ \E i, j \in DOMAIN flagged.rows :
          /\ flagged.rows[i].value = NaN /\ flagged.rows[i].outlier_group_n = 2
          /\ flagged.rows[i].is_outlier = FALSE
          /\ flagged.rows[j].is_outlier = TRUE

\* C18 as claimed: the output has one row for every input row, rows with an
\* absent value or a null group key included, with every input column
\* unchanged, and only the five annotation columns added.
C18_ReadOnlyAnnotation ==
    Flagged =>
        /\ flagged.columns = outl_df.columns \cup AnnotationColumns
        /\ Len(flagged.rows) = Len(outl_df.rows)
        /\ \A k \in DOMAIN flagged.rows :
              \A c \in outl_df.columns :
                  k \in DOMAIN outl_df.rows /\ flagged.rows[k][c] = outl_df.rows[k][c]

\* C19: flagging the output of flag_outliers again, with the same spec,
\* returns a table equal to that output.
C19_Idempotent == outl_pc = "reflagged" => reflagged = flagged

\* C19 witness: a table with a flagged and an unflagged row was flagged again
C19_Witness ==
    /\ outl_pc = "reflagged"
    /\ \E i, j \in DOMAIN reflagged.rows :
          reflagged.rows[i].is_outlier = TRUE /\ reflagged.rows[j].is_outlier = FALSE

-----------------------------------------------------------------------------
(* Properties of apply_outlier_filter                                       *)

DroppedWellMetric == flt_pc = "returned" /\ flt_mode = "drop_well_metric"

SameCombination(a, b) ==
    a.plate_id = b.plate_id /\ a.well = b.well /\ a.metric = b.metric

\* some row of r's (plate_id, well, metric) combination is flagged
CombinationFlagged(r) ==
    \E j \in DOMAIN flt_df.rows : flt_df.rows[j].is_outlier /\ SameCombination(flt_df.rows[j], r)

CompleteKey(r) == r.plate_id # Null /\ r.well # Null /\ r.metric # Null

\* the input rows at the indices where keep holds, in order
RECURSIVE KeptRows(_, _)
KeptRows(k, keep) ==
    IF k = 0 THEN <<>>
    ELSE IF keep[k] THEN Append(KeptRows(k - 1, keep), flt_df.rows[k])
    ELSE KeptRows(k - 1, keep)

PointedToNan == flt_pc = "returned" /\ flt_mode = "point_to_nan"

DroppedRows == flt_pc = "returned" /\ flt_mode = "drop_rows"

\* C21: point_to_nan keeps every row in place, makes the value of each flagged
\* row absent and leaves the values of unflagged rows and every other column
\* as they were; drop_rows returns exactly the unflagged rows of the input,
\* unchanged and in order.
C21_PointToNanDropRows ==
    /\ PointedToNan =>
          /\ flt_out.columns = flt_df.columns
          /\ Len(flt_out.rows) = Len(flt_df.rows)
          /\ \A k \in DOMAIN flt_df.rows :
                /\ \A c \in flt_df.columns \ {"value"} :
                      flt_out.rows[k][c] = flt_df.rows[k][c]
                /\ flt_out.rows[k].value =
                      IF flt_df.rows[k].is_outlier THEN NaN ELSE flt_df.rows[k].value
    /\ DroppedRows =>
          /\ flt_out.columns = flt_df.columns
          /\ flt_out.rows =
                KeptRows(Len(flt_df.rows),
                         [k \in DOMAIN flt_df.rows |-> ~flt_df.rows[k].is_outlier])

\* C21 witness: a table with a flagged and an unflagged row went through
\* point_to_nan (both rows kept, one value absent) or through drop_rows (one
\* row left)
C21_Witness ==
    /\ \E i, j \in DOMAIN flt_df.rows :
          flt_df.rows[i].is_outlier /\ ~flt_df.rows[j].is_outlier
    /\ \/ PointedToNan /\ Len(flt_out.rows) = Len(flt_df.rows)
                       /\ \E k \in DOMAIN flt_out.rows : isna(flt_out.rows[k].value)
       \/ DroppedRows /\ Len(flt_out.rows) < Len(flt_df.rows) /\ flt_out.rows # <<>>

-----------------------------------------------------------------------------
(* Properties of p_adjust, stated from the raw p-values alone               *)

Adjusted == padj_pc = "returned"

RatSetMax(S) == CHOOSE x \in S : \A y \in S : RatLeq(y, x)

RatSetMin(S) == CHOOSE x \in S : \A y \in S : RatLeq(x, y)

\* a <= b up to floating rounding: a may exceed b by the error of a few
\* roundings, each at most one part in 2^MantissaBits
AlmostLeq(a, b) ==
    RatLeq(RatMul(a, RatSub(Int2Rat(1), Rat(1, Pow2(MantissaBits - 2)))), b)

\* the Holm value of position i: the largest min((m - rank + 1) * p, 1) over
\* the p-values not above pvals[i], rank counting the smaller p-values
HolmAt(pvals, i) ==
    RatSetMax({ RatMin(FloatMul(Int2Rat(Len(pvals)
                                        - Cardinality({k \in DOMAIN pvals :
                                                         RatLess(pvals[k], pvals[j])})),
                                pvals[j]),
                       Int2Rat(1)) :
                  j \in {j \in DOMAIN pvals : RatLeq(pvals[j], pvals[i])} })

\* the Benjamini-Hochberg value of position i: the smallest p * m / rank over
\* the p-values not below pvals[i], capped at 1
FdrBhAt(pvals, i) ==
    RatMin(Int2Rat(1),
           RatSetMin({ FloatDiv(FloatMul(pvals[j], Int2Rat(Len(pvals))),
                                Int2Rat(Cardinality({k \in DOMAIN pvals :
                                                       RatLeq(pvals[k], pvals[j])}))) :
                         j \in {j \in DOMAIN pvals : RatLeq(pvals[i], pvals[j])} }))

\* what holm and fdr_bh share: no error, one adjusted value per raw value at
\* the raw value's position, non-decreasing along ascending raw p, at most 1
StepwiseShape ==
    /\ padj_pc # "ValueError"
    /\ Adjusted =>
          /\ Len(padj_out) = Len(padj_pvals)
          /\ \A i \in DOMAIN padj_pvals :
                /\ padj_out[i] = IF padj_method = "holm" THEN HolmAt(padj_pvals, i)
                                 ELSE FdrBhAt(padj_pvals, i)
                /\ RatLeq(padj_out[i], Int2Rat(1))
                /\ \A j \in DOMAIN padj_pvals :
                      RatLeq(padj_pvals[i], padj_pvals[j]) => RatLeq(padj_out[i], padj_out[j])

\* C25: for holm and fdr_bh and every array of m >= 0 p-values in [0, 1] the
\* call raises nothing and returns m values (none for none), the value at
\* position i being the adjustment of the raw value at position i; they are
\* non-decreasing along ascending raw p-values and at most 1; a holm value is
\* at least its raw value, an fdr_bh value is so up to floating rounding.
C25_HolmFdrBh ==
    padj_method \in {"holm", "fdr_bh"} =>
        /\ StepwiseShape
        /\ Adjusted =>
              \A i \in DOMAIN padj_pvals :
                  IF padj_method = "holm" THEN RatLeq(padj_pvals[i], padj_out[i])
                  ELSE AlmostLeq(padj_pvals[i], padj_out[i])

\* C25 as claimed: every adjusted value, fdr_bh included, is at least its raw
\* value
C25_HolmFdrBhAsClaimed ==
    padj_method \in {"holm", "fdr_bh"} =>
        /\ StepwiseShape
        /\ Adjusted => \A i \in DOMAIN padj_pvals : RatLeq(padj_pvals[i], padj_out[i])

\* C25 witness: three unsorted p-values were adjusted by holm or fdr_bh; the
\* smallest was raised and the adjusted values follow the raw order
C25_Witness ==
    /\ Adjusted
    /\ padj_method \in {"holm", "fdr_bh"}
    /\ Len(padj_pvals) = 3
    /\ RatLess(padj_pvals[2], padj_pvals[3]) /\ RatLess(padj_pvals[3], padj_pvals[1])
    /\ RatLess(padj_pvals[2], padj_out[2])
    /\ RatLeq(padj_out[2], padj_out[3]) /\ RatLeq(padj_out[3], padj_out[1])
    /\ RatLess(padj_out[2], padj_out[1])

\* C28: at every position raw <= holm <= bonferroni, bonferroni being the
\* float product raw * m capped at 1; fdr_bh lies between raw and holm up to
\* floating rounding; a single p-value is returned unchanged by all three.
C28_Ordering ==
    Adjusted =>
        /\ Len(padj_pvals) = 1 => padj_out = padj_pvals
        /\ \A i \in DOMAIN padj_pvals : \A order \in ArgSorts(padj_pvals) :
              CASE padj_method = "bonferroni" ->
                      /\ padj_out[i] = RatMin(FloatMul(padj_pvals[i], Int2Rat(Len(padj_pvals))),
                                              Int2Rat(1))
                      /\ RatLeq(Holm(padj_pvals, order)[i], padj_out[i])
                [] padj_method = "holm" ->
                      /\ RatLeq(padj_pvals[i], padj_out[i])
                      /\ RatLeq(padj_out[i], Bonferroni(padj_pvals)[i])
                      /\ AlmostLeq(FdrBh(padj_pvals, order)[i], padj_out[i])
                [] padj_method = "fdr_bh" ->
                      /\ AlmostLeq(padj_pvals[i], padj_out[i])
                      /\ AlmostLeq(padj_out[i], Holm(padj_pvals, order)[i])

\* C28 as claimed: raw <= fdr_bh <= holm <= bonferroni with no tolerance
C28_OrderingAsClaimed ==
    Adjusted =>
        /\ Len(padj_pvals) = 1 => padj_out = padj_pvals
        /\ \A i \in DOMAIN padj_pvals : \A order \in ArgSorts(padj_pvals) :
              CASE padj_method = "bonferroni" ->
                      /\ padj_out[i] = RatMin(FloatMul(padj_pvals[i], Int2Rat(Len(padj_pvals))),
                                              Int2Rat(1))
                      /\ RatLeq(Holm(padj_pvals, order)[i], padj_out[i])
                [] padj_method = "holm" ->
                      /\ RatLeq(padj_out[i], Bonferroni(padj_pvals)[i])
                      /\ RatLeq(FdrBh(padj_pvals, order)[i], padj_out[i])
                [] padj_method = "fdr_bh" ->
                      /\ RatLeq(padj_pvals[i], padj_out[i])
                      /\ RatLeq(padj_out[i], Holm(padj_pvals, order)[i])

\* C28 witness: fdr_bh returned, at some position, a value strictly between
\* the raw p-value and holm's value, itself strictly below bonferroni's
C28_Witness ==
    /\ Adjusted
    /\ padj_method = "fdr_bh"
    /\ \E i \in DOMAIN padj_pvals : \E order \in ArgSorts(padj_pvals) :
          /\ RatLess(padj_pvals[i], padj_out[i])
          /\ RatLess(padj_out[i], Holm(padj_pvals, order)[i])
          /\ RatLess(Holm(padj_pvals, order)[i], Bonferroni(padj_pvals)[i])

-----------------------------------------------------------------------------
(* Properties of compare_conditions_at_timepoint, stated from the table and *)
(* the arguments of the call                                                *)

Compared == cmp_pc = "returned"

CmpFailed == cmp_pc \notin {"idle", "input", "returned"}

\* number of non-absent values of condition c at the metric and time point
\* asked for, on the plate asked for when there is one
CmpCount(c) ==
    Cardinality({ i \in DOMAIN cmp_df.rows :
                    /\ cmp_df.rows[i].condition = c
                    /\ cmp_df.rows[i].metric = cmp_args.metric
                    /\ cmp_df.rows[i].time_point = cmp_args.time_point
                    /\ cmp_args.plate_id # Null => cmp_df.rows[i].plate_id = cmp_args.plate_id
                    /\ ~isna(cmp_df.rows[i].value) })

\* the conditions with enough values
Surviving ==
    { c \in {cmp_df.rows[i].condition : i \in DOMAIN cmp_df.rows} \ {Null} :
        CmpCount(c) >= cmp_args.min_n_per_group }

\* the conditions the pairwise table names
Compared2(rows) == UNION { {rows[i].condition_a, rows[i].condition_b} : i \in DOMAIN rows }

\* C22: rows without condition are never used; the descriptives and the test
\* data hold exactly the conditions with at least min_n_per_group non-absent
\* values at the metric, time point and plate asked for; the call raises, and
\* returns no table, exactly when fewer than two conditions have that many.
C22_Survivors ==
    /\ Compared =>
          /\ {cmp_desc.rows[i].condition : i \in DOMAIN cmp_desc.rows} = Surviving
          /\ Len(cmp_desc.rows) = Cardinality(Surviving)
          /\ \A i \in DOMAIN cmp_desc.rows :
                cmp_desc.rows[i].n = CmpCount(cmp_desc.rows[i].condition)
          /\ Compared2(cmp_pairwise.rows) = Surviving
          /\ \A i \in DOMAIN cmp_pairwise.rows :
                /\ cmp_pairwise.rows[i].n_a = CmpCount(cmp_pairwise.rows[i].condition_a)
                /\ cmp_pairwise.rows[i].n_b = CmpCount(cmp_pairwise.rows[i].condition_b)
    /\ CmpFailed => cmp_desc = None /\ cmp_omnibus = None /\ cmp_pairwise = None
    /\ cmp_pc \notin {"idle", "input"} => (CmpFailed <=> Cardinality(Surviving) < 2)

\* C22 witness: the call returned tables although a condition with rows at
\* the metric and time point asked for was left out for want of values
C22_Witness ==
    /\ Compared
    /\ \E i \in DOMAIN cmp_df.rows :
          /\ cmp_df.rows[i].condition \notin Surviving \cup {Null}
          /\ cmp_df.rows[i].metric = cmp_args.metric
          /\ cmp_df.rows[i].time_point = cmp_args.time_point
          /\ cmp_df.rows[i].condition \notin
                {cmp_desc.rows[j].condition : j \in DOMAIN cmp_desc.rows}

\* C23: the omnibus table is one row whose k_groups is the number k of
\* surviving conditions, k >= 2, and whose test is welch_ttest or
\* mannwhitney_u for k = 2 and oneway_anova or kruskal_wallis for k >= 3, by
\* test family.
C23_OmnibusTest ==
    Compared =>
        /\ Len(cmp_omnibus.rows) = 1
        /\ cmp_omnibus.rows[1].k_groups = Cardinality(Surviving)
        /\ cmp_omnibus.rows[1].k_groups >= 2
        /\ cmp_omnibus.rows[1].test =
              CASE Cardinality(Surviving) = 2 /\ cmp_args.test_family = "parametric" ->
                      "welch_ttest"
                [] Cardinality(Surviving) = 2 /\ cmp_args.test_family = "nonparametric" ->
                      "mannwhitney_u"
                [] Cardinality(Surviving) >= 3 /\ cmp_args.test_family = "parametric" ->
                      "oneway_anova"
                [] Cardinality(Surviving) >= 3 /\ cmp_args.test_family = "nonparametric" ->
                      "kruskal_wallis"

\* C23 witness: two conditions were compared by a Welch t-test, or three by a
\* Kruskal-Wallis test
C23_Witness ==
    /\ Compared
    /\ \/ cmp_omnibus.rows[1].k_groups = 2 /\ cmp_omnibus.rows[1].test = "welch_ttest"
       \/ cmp_omnibus.rows[1].k_groups = 3 /\ cmp_omnibus.rows[1].test = "kruskal_wallis"

\* C24: whatever the omnibus p-value, the pairwise table has k(k-1)/2 rows,
\* one per unordered pair of surviving conditions and none with another
\* condition; the p_adj column is the adjustment of the p_value column, row by
\* row; rows ascend by p_adj; with k = 2 the single row has p_adj = p_value.
C24_Pairwise ==
    Compared =>
        LET rows == cmp_pairwise.rows
            k    == Cardinality(Surviving)
            raw  == [i \in DOMAIN rows |-> rows[i].p_value]
        IN  /\ 2 * Len(rows) = k * (k - 1)
            /\ \A x, y \in Surviving :
                  x # y => Cardinality({ i \in DOMAIN rows :
                                           {rows[i].condition_a, rows[i].condition_b} = {x, y} }) = 1
            /\ \A i \in DOMAIN rows :
                  /\ {rows[i].condition_a, rows[i].condition_b} \subseteq Surviving
                  /\ rows[i].condition_a # rows[i].condition_b
                  /\ \A order \in ArgSorts(raw) :
                        rows[i].p_adj = PAdjust(raw, cmp_args.p_adjust_method, order).out[i]
                  /\ \A j \in DOMAIN rows : i < j => RatLeq(rows[i].p_adj, rows[j].p_adj)
            /\ k = 2 => Len(rows) = 1 /\ rows[1].p_adj = rows[1].p_value

\* C24 witness: three conditions survived, the omnibus test was not
\* significant, and the three pairwise rows carry adjusted p-values that
\* differ from the raw ones and from each other
C24_Witness ==
    /\ Compared
    /\ Cardinality(Surviving) = 3
    /\ cmp_omnibus.rows[1].p_value = Int2Rat(1)
    /\ Len(cmp_pairwise.rows) = 3
    /\ cmp_pairwise.rows[1].p_adj # cmp_pairwise.rows[1].p_value
    /\ RatLess(cmp_pairwise.rows[1].p_adj, cmp_pairwise.rows[3].p_adj)

-----------------------------------------------------------------------------
(* Property of the z-score method with the default threshold                *)

\* C29: with method zscore and threshold 3.0 no row of a group with ten or
\* fewer non-absent values is flagged; every flagged row is in a group of at
\* least eleven.
C29_ZscoreNeedsEleven ==
    Flagged /\ outl_spec.method = "zscore" /\ outl_spec.threshold = Int2Rat(3) =>
        \A i \in DOMAIN flagged.rows :
            flagged.rows[i].is_outlier => GroupN(flagged.rows[i]) >= 11

\* C29 witness: a group of eleven non-absent values got a flag, and it was
\* flagged under the default spec
C29_Witness ==
    /\ Flagged
    /\ outl_spec = DefaultOutlierSpec
    /\ \E i \in DOMAIN flagged.rows :
          flagged.rows[i].is_outlier /\ GroupN(flagged.rows[i]) = 11

-----------------------------------------------------------------------------
(* Property of the stored master table over sequences of calls              *)

\* C30: get and save raise 'not created yet' as long as no create call has
\* succeeded; a create call that fails leaves the stored table as it was (the
\* stored table is always the one built by the last create that succeeded);
\* after a successful create, get returns that table and save writes it.
C30_StoredTable ==
    /\ master_df = life_built
    /\ life_op = "create" => (life_ret.raised # "" <=> org_result = "ValueError")
    /\ life_op \in {"get", "save"} =>
          IF life_built = None THEN life_ret = [raised |-> NotCreatedYet, value |-> None]
          ELSE /\ life_ret.raised = ""
               /\ life_op = "get" => life_ret.value = life_built
               /\ life_op = "save" => life_file = life_built

\* C30 witness: a create succeeded, a later create failed, and get then
\* returned the table of the create that had succeeded
C30_Witness ==
    /\ life_op = "get"
    /\ org_result = "ValueError"
    /\ life_built # None
    /\ life_ret = [raised |-> "", value |-> life_built]

-----------------------------------------------------------------------------
(* Properties of the entry checks                                           *)

NormCalled == norm_pc \notin {"idle", "input"}

OutlCalled == outl_pc \notin {"idle", "input"}

FltCalled == flt_pc \notin {"idle", "input"}

CmpCalled == cmp_pc \notin {"idle", "input"}

PadjCalled == padj_pc \notin {"idle", "input"}

NormLacksColumn == ~({"time_point", "well", "metric", "value"} \subseteq df.columns)

OutlLacksColumn ==
    ~({"plate_id", "metric", "condition", "time_point", "value"} \subseteq outl_df.columns)

CmpLacksColumn == ~({"metric", "time_point", "condition", "value"} \subseteq cmp_df.columns)

CmpLacksPlate ==
    /\ CmpCalled
    /\ ~CmpLacksColumn
    /\ cmp_args.plate_id # Null
    /\ "plate_id" \notin cmp_df.columns

\* what the four functions do alike on a table that lacks a column
SchemaErrorsElsewhere ==
    /\ OutlCalled /\ OutlLacksColumn =>
          outl_pc = "ValueError: missing columns" /\ flagged = None
    /\ CmpCalled /\ CmpLacksColumn =>
          /\ cmp_pc = "ValueError: missing columns"
          /\ cmp_desc = None /\ cmp_omnibus = None /\ cmp_pairwise = None
    /\ CmpCalled /\ CmpLacksPlate =>
          /\ cmp_pc = "ValueError: no plate_id column"
          /\ cmp_desc = None /\ cmp_omnibus = None /\ cmp_pairwise = None
    /\ FltCalled /\ "is_outlier" \notin flt_df.columns =>
          flt_pc = "ValueError: not flagged" /\ flt_out = None

\* C26: on a table lacking a required column flag_outliers and
\* compare_conditions_at_timepoint (plate_id included when a plate is asked
\* for) raise an error naming the missing columns, and apply_outlier_filter
\* raises for every mode when is_outlier is absent; baseline_normalize raises
\* the error naming the missing columns when its method is known and the
\* error about the method otherwise; in each case nothing is returned.
C26_SchemaErrors ==
    /\ SchemaErrorsElsewhere
    /\ NormCalled /\ NormLacksColumn =>
          /\ norm_pc = IF method \in {"ratio", "percent", "delta"}
                       THEN "ValueError: missing columns" ELSE "ValueError: method"
          /\ out = None /\ baseline_qc = None

\* C26 as claimed: baseline_normalize too names the missing columns whenever
\* one is missing
C26_SchemaErrorsAsClaimed ==
    /\ SchemaErrorsElsewhere
    /\ NormCalled /\ NormLacksColumn =>
          /\ norm_pc = "ValueError: missing columns"
          /\ out = None /\ baseline_qc = None

\* C26 witness: a plate was asked for from a table that has every required
\* column but plate_id, and the call raised
C26_Witness ==
    /\ CmpLacksPlate
    /\ cmp_df.rows # <<>>
    /\ cmp_pc = "ValueError: no plate_id column"

\* what the code does with an unknown name: baseline_normalize and
\* apply_outlier_filter always raise; flag_outliers raises only if the table
\* lacks a column or a group has min_group_n values; p_adjust raises only if
\* there is a p-value
UnknownNameAsCoded ==
    /\ NormCalled /\ method \notin Methods => norm_pc = "ValueError: method"
    /\ FltCalled /\ flt_mode \notin FilterModes =>
          flt_pc \in {"ValueError", "ValueError: not flagged"}
    /\ OutlCalled /\ outl_spec.method \notin OutlierMethods /\ ~OutlLacksColumn =>
          (outl_pc = "ValueError: method"
              <=> \E i \in DOMAIN outl_df.rows :
                     GroupN(outl_df.rows[i]) >= outl_spec.min_group_n)
    /\ PadjCalled /\ padj_method \notin AdjustMethods =>
          (padj_pc = "ValueError" <=> padj_pvals # <<>>)

\* C27: a call with an unknown method or mode name raises whatever table or
\* sequence is passed, and returns nothing: baseline_normalize, flag_outliers,
\* apply_outlier_filter and p_adjust.
C27_UnknownNameRejected ==
    /\ NormCalled /\ method \notin {"ratio", "percent", "delta"} =>
          norm_pc # "returned" /\ out = None
    /\ OutlCalled /\ outl_spec.method \notin {"zscore", "robust_zscore"} =>
          outl_pc \notin {"flagged", "reflagged"} /\ flagged = None
    /\ FltCalled /\ flt_mode \notin {"point_to_nan", "drop_rows", "drop_well_metric"} =>
          flt_pc # "returned" /\ flt_out = None
    /\ PadjCalled /\ padj_method \notin {"bonferroni", "holm", "fdr_bh"} =>
          padj_pc # "returned"

====
